---- MODULE Spec2Model ----
(***************************************************************************)
(* Model of the notification manager (src/src/lib/notification-manager.ts) *)
(* and of the failure analyzer (src/src/app/page.tsx).                     *)
(*                                                                         *)
(* Strings are TLA+ strings; the JavaScript string functions the code uses *)
(* (toLowerCase, includes, startsWith, endsWith, replace(/\s+/g,'_')) are   *)
(* computed character by character.  The clock counts days.                *)
(***************************************************************************)
EXTENDS Integers, Sequences, FiniteSets, TLC

(***************************************************************************)
(* Bounds of the model.                                                    *)
(***************************************************************************)
MaxNotifications == 2        \* stored notifications (Spec)
MaxTicks == 1                \* clock advances (Spec, SpecCreate, SpecQuery, SpecSubscribers)
MaxLifecycleOps == 2         \* acknowledge/resolve/assign calls in one behaviour
MaxCreated == 2              \* stored notifications (SpecCreate)
MaxQueryNotifications == 3   \* stored notifications (SpecQuery)
MaxCleanupNotifications == 2 \* stored notifications (SpecCleanup)
MaxCleanupTicks == 3         \* clock advances (SpecCleanup)
MaxSubscribers == 2          \* subscribe() calls in one behaviour
MaxSubNotifications == 1     \* stored notifications (SpecSubscribers)
MaxFilterNotifications == 2  \* stored notifications (SpecFilter)
MaxStatsNotifications == 3   \* stored notifications (SpecStats)
MaxStatsTicks == 1           \* clock advances (SpecStats)
MaxStatsResolves == 1        \* resolve calls (SpecStats)
MaxStoreNotifications == 2   \* stored notifications (SpecStore)
MaxStoreTicks == 2           \* clock advances (SpecStore)
MaxStoreOps == 2             \* acknowledge/resolve/assign calls (SpecStore)
MaxRegexNotifications == 1   \* stored notifications (SpecRegex)
MaxPatternAdds == 2          \* addFailurePattern calls (SpecRegex)
MaxUpdateOps == 2            \* add, update and delete requests (SpecUpdates)
MaxUpdateTicks == 1          \* clock advances (SpecUpdates)
MaxStages == 2               \* stages of an upstream build (SpecBuild)
MaxClients == 1              \* WebSocket clients (SpecSocket)
MaxPublished == 1            \* events published by clients (SpecSocket)
MaxRequests == 3             \* Jenkins requests in flight (SpecJenkins)
MaxCatalogOps == 2           \* add, update and delete requests (SpecCatalog)

(***************************************************************************)
(* Program constants.                                                      *)
(***************************************************************************)
ThirtyDays == 30           \* cleanup(): setDate(getDate() - 30)
AutoAckPriority == 3       \* executeRuleActions: rule.priority > 3

TickStep == ThirtyDays \div 2

UNDEF == "<undefined>"     \* the JavaScript value undefined
NoTime == -1               \* an audit timestamp that was never written
NaN == -1                  \* the IEEE-754 NaN, as a scaled confidence value

(***************************************************************************)
(* JavaScript string functions.                                            *)
(***************************************************************************)
CharAt(s, i) == SubSeq(s, i, i)

\* String.prototype.toLowerCase on one character (ASCII letters)
LowerChar(c) ==
    CASE c = "A" -> "a"
      [] c = "B" -> "b"
      [] c = "C" -> "c"
      [] c = "D" -> "d"
      [] c = "E" -> "e"
      [] c = "F" -> "f"
      [] c = "G" -> "g"
      [] c = "H" -> "h"
      [] c = "I" -> "i"
      [] c = "J" -> "j"
      [] c = "K" -> "k"
      [] c = "L" -> "l"
      [] c = "M" -> "m"
      [] c = "N" -> "n"
      [] c = "O" -> "o"
      [] c = "P" -> "p"
      [] c = "Q" -> "q"
      [] c = "R" -> "r"
      [] c = "S" -> "s"
      [] c = "T" -> "t"
      [] c = "U" -> "u"
      [] c = "V" -> "v"
      [] c = "W" -> "w"
      [] c = "X" -> "x"
      [] c = "Y" -> "y"
      [] c = "Z" -> "z"
      [] OTHER -> c

RECURSIVE toLowerFrom(_, _)
toLowerFrom(s, i) ==
    IF i > Len(s) THEN "" ELSE LowerChar(CharAt(s, i)) \o toLowerFrom(s, i + 1)

toLowerCase(s) == toLowerFrom(s, 1)

includes(s, sub) ==
    \E i \in 1..(Len(s) - Len(sub) + 1) : SubSeq(s, i, i + Len(sub) - 1) = sub

startsWith(s, sub) ==
    Len(sub) <= Len(s) /\ SubSeq(s, 1, Len(sub)) = sub

endsWith(s, sub) ==
    Len(sub) <= Len(s) /\ SubSeq(s, Len(s) - Len(sub) + 1, Len(s)) = sub

IsSpace(c) == c = " "

\* s.replace(/\s+/g, '_'): every maximal run of whitespace becomes one '_'
RECURSIVE replaceSpacesFrom(_, _)
replaceSpacesFrom(s, i) ==
    IF i > Len(s) THEN ""
    ELSE IF IsSpace(CharAt(s, i))
         THEN IF i < Len(s) /\ IsSpace(CharAt(s, i + 1))
              THEN replaceSpacesFrom(s, i + 1)
              ELSE "_" \o replaceSpacesFrom(s, i + 1)
         ELSE CharAt(s, i) \o replaceSpacesFrom(s, i + 1)

replaceSpaces(s) == replaceSpacesFrom(s, 1)

\* JavaScript truthiness of an optional string
Truthy(s) == s # UNDEF /\ s # ""

(***************************************************************************)
(* Notification manager: data.                                             *)
(***************************************************************************)
Severities == {"low", "medium", "high", "critical"}

NoId == [time |-> -1, rand |-> 0]

\* this.rules after initializeDefaultRules()
rules ==
    << [id |-> "critical_failure",
        conditions |-> << [field |-> "severity", operator |-> "equals", value |-> "critical"] >>,
        actions |-> << [id |-> "immediate_alert", action |-> "escalate"],
                       [id |-> "assign_lead", action |-> "assign"] >>,
        priority |-> 1, enabled |-> TRUE],
       [id |-> "recurring_failure",
        conditions |-> << [field |-> "failure_reason", operator |-> "contains", value |-> "timeout"] >>,
        actions |-> << [id |-> "auto_fix", action |-> "quick_fix"],
                       [id |-> "assign_team", action |-> "assign"] >>,
        priority |-> 2, enabled |-> TRUE],
       [id |-> "test_failure",
        conditions |-> << [field |-> "stage", operator |-> "contains", value |-> "test"] >>,
        actions |-> << [id |-> "notify_developer", action |-> "assign"] >>,
        priority |-> 3, enabled |-> TRUE],
       [id |-> "performance_warning",
        conditions |-> << [field |-> "failure_reason", operator |-> "contains", value |-> "slow"] >>,
        actions |-> << [id |-> "monitor", action |-> "acknowledge"] >>,
        priority |-> 4, enabled |-> TRUE] >>

\* `notif_${Date.now()}_${Math.random().toString(36).substr(2, 9)}`
generateId(now, rnd) == [time |-> now, rand |-> rnd]

\* tags that keep the case of the pipeline name and of the stage
generateTagsKeepCase(type, severity, pipelineName, stage) ==
    LET t0 == << type, severity >>
        t1 == IF Truthy(pipelineName) THEN Append(t0, replaceSpaces(pipelineName)) ELSE t0
        t2 == IF Truthy(stage) THEN Append(t1, replaceSpaces(stage)) ELSE t1
        t3 == IF severity = "critical" \/ severity = "high"
              THEN Append(t2, "urgent") ELSE t2
    IN  IF type = "pipeline_failure" THEN Append(t3, "needs_attention") ELSE t3

generateTags(type, severity, pipelineName, stage) ==
    LET t0 == << type, severity >>
        t1 == IF Truthy(pipelineName)
              THEN Append(t0, replaceSpaces(toLowerCase(pipelineName))) ELSE t0
        t2 == IF Truthy(stage)
              THEN Append(t1, replaceSpaces(toLowerCase(stage))) ELSE t1
        t3 == IF severity = "critical" \/ severity = "high"
              THEN Append(t2, "urgent") ELSE t2
    IN  IF type = "pipeline_failure" THEN Append(t3, "needs_attention") ELSE t3

\* a baseline that offers escalation for critical severity only
generateActionsCriticalOnly(type, severity) ==
    LET a0 == << [id |-> "acknowledge", action |-> "acknowledge"] >>
        a1 == IF type = "pipeline_failure"
              THEN a0 \o << [id |-> "view_logs", action |-> "view_logs"],
                            [id |-> "restart", action |-> "restart"] >>
              ELSE a0
        a2 == IF severity = "critical"
              THEN Append(a1, [id |-> "escalate", action |-> "escalate"]) ELSE a1
        a3 == IF type = "pipeline_failure"
              THEN Append(a2, [id |-> "quick_fix", action |-> "quick_fix"]) ELSE a2
    IN  Append(a3, [id |-> "resolve", action |-> "resolve"])

generateActions(type, severity) ==
    LET a0 == << [id |-> "acknowledge", action |-> "acknowledge"] >>
        a1 == IF type = "pipeline_failure"
              THEN a0 \o << [id |-> "view_logs", action |-> "view_logs"],
                            [id |-> "restart", action |-> "restart"] >>
              ELSE a0
        a2 == IF severity = "high" \/ severity = "critical"
              THEN Append(a1, [id |-> "escalate", action |-> "escalate"]) ELSE a1
        a3 == IF type = "pipeline_failure"
              THEN Append(a2, [id |-> "quick_fix", action |-> "quick_fix"]) ELSE a2
    IN  Append(a3, [id |-> "resolve", action |-> "resolve"])

getFieldValue(n, field) ==
    CASE field = "pipeline_name" -> IF Truthy(n.pipelineName) THEN n.pipelineName ELSE ""
      [] field = "failure_reason" -> n.message
      [] field = "stage" -> IF Truthy(n.stage) THEN n.stage ELSE ""
      [] field = "severity" -> n.severity
      [] field = "branch" -> IF Truthy(n.metadata.branch) THEN n.metadata.branch ELSE ""
      [] field = "developer" -> IF Truthy(n.metadata.developer) THEN n.metadata.developer ELSE ""
      [] OTHER -> ""

\* characters that make `new RegExp(val)` throw or give val a non-literal meaning
RegexMeta == {"(", ")", "[", "]", "{", "}", "*", "+", "?", ".", "^", "$", "|", "\\"}

IsLiteralRegex(val) == \A i \in 1..Len(val) : CharAt(val, i) \notin RegexMeta

\* patterns of the model's regex fragment that fail to compile
RegexThrows(val) == val \in {"(", "[", "*", "a(", "a["}

evaluateCondition(fieldValue, operator, value) ==
    LET field == toLowerCase(fieldValue)
        val == toLowerCase(value)
    IN  CASE operator = "equals" -> field = val
          [] operator = "contains" -> includes(field, val)
          [] operator = "starts_with" -> startsWith(field, val)
          [] operator = "ends_with" -> endsWith(field, val)
          [] operator = "regex" ->
                IF RegexThrows(val) THEN FALSE
                ELSE IsLiteralRegex(val) /\ includes(field, val)
          [] OTHER -> FALSE

matchesConditions(n, conditions) ==
    \A i \in 1..Len(conditions) :
        evaluateCondition(getFieldValue(n, conditions[i].field),
                          conditions[i].operator, conditions[i].value)

HasAction(actions, id) == \E i \in 1..Len(actions) : actions[i].id = id

RECURSIVE pushRuleActions(_, _, _)
pushRuleActions(actions, ruleActions, i) ==
    IF i > Len(ruleActions) THEN actions
    ELSE pushRuleActions(IF HasAction(actions, ruleActions[i].id) THEN actions
                         ELSE Append(actions, ruleActions[i]),
                         ruleActions, i + 1)

\* rule actions that also acknowledge for a rule of priority 3
executeRuleActionsFromPriority3(n, rule) ==
    LET m == [n EXCEPT !.actions = pushRuleActions(n.actions, rule.actions, 1)]
    IN  IF rule.priority >= AutoAckPriority THEN [m EXCEPT !.acknowledged = TRUE] ELSE m

executeRuleActions(n, rule) ==
    LET m == [n EXCEPT !.actions = pushRuleActions(n.actions, rule.actions, 1)]
    IN  IF rule.priority > AutoAckPriority THEN [m EXCEPT !.acknowledged = TRUE] ELSE m

IsEnabled(r) == r.enabled

RECURSIVE processRulesFrom(_, _, _)
processRulesFrom(n, rs, i) ==
    IF i > Len(rs) THEN n
    ELSE IF matchesConditions(n, rs[i].conditions)
         THEN executeRuleActions(n, rs[i])
         ELSE processRulesFrom(n, rs, i + 1)

\* a rule engine that does not stop at the first matching rule
RECURSIVE processRulesAllFrom(_, _, _)
processRulesAllFrom(n, rs, i) ==
    IF i > Len(rs) THEN n
    ELSE processRulesAllFrom(IF matchesConditions(n, rs[i].conditions)
                             THEN executeRuleActions(n, rs[i]) ELSE n,
                             rs, i + 1)

processRulesNoBreak(n) == processRulesAllFrom(n, SelectSeq(rules, IsEnabled), 1)

processRules(n) == processRulesFrom(n, SelectSeq(rules, IsEnabled), 1)

(***************************************************************************)
(* Notification manager: queries.                                          *)
(***************************************************************************)
\* an optional boolean, number or array argument: {} when absent, {v} when given
None == {}
Some(v) == {v}
IsSome(o) == o # {}
The(o) == CHOOSE v \in o : TRUE

Min(a, b) == IF a < b THEN a ELSE b
Max(a, b) == IF a > b THEN a ELSE b

\* Array.prototype.slice(start, end)
slice(s, start, end) ==
    LET k == IF start < 0 THEN Max(Len(s) + start, 0) ELSE Min(start, Len(s))
        e == IF end < 0 THEN Max(Len(s) + end, 0) ELSE Min(end, Len(s))
    IN  SubSeq(s, k + 1, e)

severityOrder(sev) ==
    CASE sev = "critical" -> 4 [] sev = "high" -> 3 [] sev = "medium" -> 2 [] sev = "low" -> 1

\* a comparator that orders equal severities oldest first
compareOldestFirst(a, b) ==
    LET severityDiff == severityOrder(b.severity) - severityOrder(a.severity)
    IN  IF severityDiff # 0 THEN severityDiff ELSE a.timestamp - b.timestamp

\* the comparator of filtered.sort(): negative when a goes before b
compareNotifications(a, b) ==
    LET severityDiff == severityOrder(b.severity) - severityOrder(a.severity)
    IN  IF severityDiff # 0 THEN severityDiff ELSE b.timestamp - a.timestamp

\* Array.prototype.sort is stable: x goes after every element that does not
\* compare greater than it
RECURSIVE insertSorted(_, _, _)
insertSorted(sorted, x, i) ==
    IF i > Len(sorted) THEN Append(sorted, x)
    ELSE IF compareNotifications(sorted[i], x) > 0
         THEN SubSeq(sorted, 1, i - 1) \o << x >> \o SubSeq(sorted, i, Len(sorted))
         ELSE insertSorted(sorted, x, i + 1)

RECURSIVE sortFrom(_, _, _)
sortFrom(sorted, s, i) ==
    IF i > Len(s) THEN sorted
    ELSE sortFrom(insertSorted(sorted, s[i], 1), s, i + 1)

sortNotifications(s) == sortFrom(<< >>, s, 1)

HasTag(n, tag) == \E i \in 1..Len(n.tags) : n.tags[i] = tag

\* filter steps that test the boolean filters for truthiness
PassesFiltersTruthyFlags(n, f) ==
    /\ Truthy(f.type) => n.type = f.type
    /\ Truthy(f.severity) => n.severity = f.severity
    /\ Truthy(f.pipelineId) => n.pipelineId = f.pipelineId
    /\ (IsSome(f.acknowledged) /\ The(f.acknowledged)) => n.acknowledged = TRUE
    /\ (IsSome(f.resolved) /\ The(f.resolved)) => n.resolved = TRUE
    /\ Truthy(f.assignee) => n.assignee = f.assignee
    /\ IsSome(f.tags) => \A i \in 1..Len(The(f.tags)) : HasTag(n, The(f.tags)[i])

\* the conjunction of the filter steps of getNotifications
PassesFilters(n, f) ==
    /\ Truthy(f.type) => n.type = f.type
    /\ Truthy(f.severity) => n.severity = f.severity
    /\ Truthy(f.pipelineId) => n.pipelineId = f.pipelineId
    /\ IsSome(f.acknowledged) => n.acknowledged = The(f.acknowledged)
    /\ IsSome(f.resolved) => n.resolved = The(f.resolved)
    /\ Truthy(f.assignee) => n.assignee = f.assignee
    /\ IsSome(f.tags) => \A i \in 1..Len(The(f.tags)) : HasTag(n, The(f.tags)[i])

\* JavaScript truthiness of an optional number
TruthyNum(o) == IsSome(o) /\ The(o) # 0

paginate(sorted, f) ==
    LET afterOffset == IF TruthyNum(f.offset)
                       THEN slice(sorted, The(f.offset), Len(sorted)) ELSE sorted
    IN  IF TruthyNum(f.limit) THEN slice(afterOffset, 0, The(f.limit)) ELSE afterOffset

getNotifications(store, f) ==
    LET Keep(n) == PassesFilters(n, f)
    IN  paginate(sortNotifications(SelectSeq(store, Keep)), f)

(***************************************************************************)
(* Inputs of the modelled calls.                                           *)
(***************************************************************************)
NoMetadata == [branch |-> UNDEF, developer |-> UNDEF]

CreateInputs ==
    { [type |-> "pipeline_failure", title |-> "Pipeline Failed: My App",
       message |-> "Build TIMEOUT in tests", severity |-> "critical",
       pipelineId |-> "p1", pipelineName |-> "My  App", stage |-> "Unit Test",
       metadata |-> [branch |-> "main", developer |-> UNDEF]],
      [type |-> "system_alert", title |-> "Disk", message |-> "Disk is slow",
       severity |-> "low", pipelineId |-> UNDEF, pipelineName |-> UNDEF,
       stage |-> UNDEF, metadata |-> NoMetadata],
      [type |-> "pipeline_failure", title |-> "Pipeline Failed: api",
       message |-> "Connection timeout on slow network", severity |-> "medium",
       pipelineId |-> "p2", pipelineName |-> "api", stage |-> "Deploy",
       metadata |-> NoMetadata],
      [type |-> "performance_warning", title |-> "Heap", message |-> "heap usage",
       severity |-> "high", pipelineId |-> "p1", pipelineName |-> "My  App",
       stage |-> UNDEF, metadata |-> NoMetadata],
      [type |-> "performance_warning", title |-> "Slow stage", message |-> "Stage is SLOW",
       severity |-> "medium", pipelineId |-> "p2", pipelineName |-> "api",
       stage |-> "Integration Test", metadata |-> NoMetadata] }

\* the input of the behaviours that go on to acknowledge, resolve and assign
LifecycleInputs == {in \in CreateInputs : in.severity = "critical"}

\* the inputs of the behaviours that go on to query the store
QueryInputs == {in \in CreateInputs : in.severity \in {"critical", "low", "high"}}

\* the input of the behaviours that go on to notify subscribers
SubscriberInputs == {in \in CreateInputs : in.severity = "low"}

\* the inputs of the behaviours that go on to change and filter notifications
FilterCreateInputs == {in \in CreateInputs : in.severity \in {"critical", "low"}}

UserIds == {"alice", UNDEF}
Assignees == {"bob"}
Rands == {1, 2}

NoFilter ==
    [type |-> UNDEF, severity |-> UNDEF, pipelineId |-> UNDEF, acknowledged |-> None,
     resolved |-> None, assignee |-> UNDEF, tags |-> None, limit |-> None, offset |-> None]

Pages == {0, 1, 2}

FilterInputs ==
    { NoFilter,
      [NoFilter EXCEPT !.type = "pipeline_failure"],
      [NoFilter EXCEPT !.severity = "high"],
      [NoFilter EXCEPT !.pipelineId = "p1"],
      [NoFilter EXCEPT !.acknowledged = Some(TRUE)],
      [NoFilter EXCEPT !.resolved = Some(FALSE), !.assignee = "bob"],
      [NoFilter EXCEPT !.tags = Some(<< "urgent", "my_app" >>)] }
    \cup { [NoFilter EXCEPT !.offset = Some(o), !.limit = Some(l)] : o \in Pages, l \in Pages }
    \cup { [NoFilter EXCEPT !.offset = Some(o)] : o \in Pages }

\* filters without pagination
UnpagedFilterInputs ==
    { NoFilter,
      [NoFilter EXCEPT !.type = "pipeline_failure"],
      [NoFilter EXCEPT !.severity = "low", !.pipelineId = "p1"],
      [NoFilter EXCEPT !.acknowledged = Some(TRUE)],
      [NoFilter EXCEPT !.acknowledged = Some(FALSE)],
      [NoFilter EXCEPT !.resolved = Some(TRUE), !.type = "pipeline_failure"],
      [NoFilter EXCEPT !.resolved = Some(FALSE), !.assignee = "bob"],
      [NoFilter EXCEPT !.assignee = "bob"],
      [NoFilter EXCEPT !.tags = Some(<< "urgent", "my_app" >>)],
      [NoFilter EXCEPT !.tags = Some(<< >>), !.acknowledged = Some(FALSE)] }

(***************************************************************************)
(* State.                                                                  *)
(***************************************************************************)
VARIABLES
    clock,          \* Date.now(), in days
    notifications,  \* NotificationManager.notifications
    subscribers,    \* NotificationManager.subscribers, in insertion order
    subscribed,     \* history: the callbacks subscribed and not unsubscribed
    subCount,       \* history: number of subscribe() calls
    delivered,      \* history: the callback invocations of the last createNotification
    lifecycleOps,   \* history: number of acknowledge/resolve/assign calls
    ret,            \* history: the last call on the store and what it returned
    analysis,       \* history: the last FailureAnalyzer call and what it returned
    solutions,      \* KnowledgeBase.solutions
    patterns,       \* KnowledgeBase.patterns
    catalogOps,     \* history: number of add, update and delete requests
    kbRet,          \* history: the last export or import and what it returned
    response,       \* history: the last HTTP request handled and its response
    config,         \* JenkinsService.config of the shared instance
    inflight,       \* the Jenkins requests being handled: where each one waits
    upstream,       \* history: the fetch() calls made, with the request they serve
    clients,        \* the WebSocket clients: connected or not, and their hook options
    rooms,          \* the server's rooms: the sockets that joined each
    toServer,       \* events a client has emitted that the server has not handled yet
    received,       \* history: the events the server has delivered to each client
    broadcasts,     \* history: the server's emits to a room, with the clients settled in it
    emitted         \* history: number of events published so far

managerVars == << clock, notifications, subscribers, subscribed, subCount, delivered, lifecycleOps, ret >>
analyzerVars == << analysis >>
catalogVars == << solutions, patterns, catalogOps, kbRet >>
jenkinsVars == << config, inflight, upstream >>
socketVars == << clients, rooms, toServer, received, broadcasts, emitted >>
vars == << managerVars, analyzerVars, catalogVars, response, jenkinsVars, socketVars >>

\* what a call on one component leaves alone
outsideManager == << analyzerVars, catalogVars, response, jenkinsVars, socketVars >>
outsideAnalyzer == << managerVars, catalogVars, response, jenkinsVars, socketVars >>
outsideCatalog == << notifications, subscribers, subscribed, subCount, delivered, lifecycleOps, ret,
                     analyzerVars, jenkinsVars, socketVars >>
outsideJenkins == << managerVars, analyzerVars, catalogVars, response, socketVars >>
outsideSocket == << managerVars, analyzerVars, catalogVars, response, jenkinsVars >>

\* the ids a caller may name: every id generateId can have returned so far
IdSpace == {generateId(k * TickStep, r) : k \in 0..(clock \div TickStep), r \in Rands}

Again(op, id) == ret.op = op /\ ret.id = id

TickUpTo(maxTicks) ==
    /\ clock + TickStep <= maxTicks * TickStep
    /\ clock' = clock + TickStep
    /\ UNCHANGED << notifications, subscribers, subscribed, subCount, delivered, lifecycleOps, ret >>

(***************************************************************************)
(* subscribe / unsubscribe / notifySubscribers                             *)
(***************************************************************************)
IndexOfKey(subs, id) ==
    IF \E i \in 1..Len(subs) : subs[i].id = id
    THEN CHOOSE i \in 1..Len(subs) : subs[i].id = id
    ELSE 0

\* Map.prototype.set: a present key keeps its position and gets the new value
MapSet(subs, id, cb) ==
    IF IndexOfKey(subs, id) # 0
    THEN [subs EXCEPT ![IndexOfKey(subs, id)] = [id |-> id, callback |-> cb]]
    ELSE Append(subs, [id |-> id, callback |-> cb])

MapDelete(subs, id) ==
    LET Other(e) == e.id # id IN SelectSeq(subs, Other)

\* without the try/catch the first throwing callback ends the forEach
RECURSIVE notifyNoCatchFrom(_, _, _, _, _)
notifyNoCatchFrom(subs, n, store, i, acc) ==
    IF i > Len(subs) THEN acc
    ELSE LET d == Append(acc.delivered,
                         [cb |-> subs[i].callback.name, seen |-> n,
                          inStore |-> Len(store) > 0 /\ store[Len(store)] = n])
         IN  IF subs[i].callback.throws
             THEN [delivered |-> d, error |-> TRUE]
             ELSE notifyNoCatchFrom(subs, n, store, i + 1, [acc EXCEPT !.delivered = d])

notifySubscribersNoCatch(subs, n, store) ==
    notifyNoCatchFrom(subs, n, store, 1, [delivered |-> << >>, error |-> FALSE])

\* subscribers.forEach(callback => { try { callback(n) } catch { log } })
RECURSIVE notifyFrom(_, _, _, _, _)
notifyFrom(subs, n, store, i, acc) ==
    IF i > Len(subs) THEN acc
    ELSE LET d == Append(acc.delivered,
                         [cb |-> subs[i].callback.name, seen |-> n,
                          inStore |-> Len(store) > 0 /\ store[Len(store)] = n])
         IN  notifyFrom(subs, n, store, i + 1, [acc EXCEPT !.delivered = d])

notifySubscribers(subs, n, store) ==
    notifyFrom(subs, n, store, 1, [delivered |-> << >>, error |-> FALSE])

subscribe(throws, rnd) ==
    LET id == generateId(clock, rnd)
        cb == [name |-> subCount + 1, throws |-> throws]
    IN  /\ subscribers' = MapSet(subscribers, id, cb)
        /\ subscribed' = subscribed \cup {[cb |-> cb.name, id |-> id]}
        /\ subCount' = subCount + 1
        /\ UNCHANGED << clock, notifications, delivered, lifecycleOps, ret >>

unsubscribe(id) ==
    /\ subscribers' = MapDelete(subscribers, id)
    /\ subscribed' = {s \in subscribed : s.id # id}
    /\ UNCHANGED << clock, notifications, subCount, delivered, lifecycleOps, ret >>

(***************************************************************************)
(* createNotification                                                      *)
(***************************************************************************)
NewNotification(in, rnd) ==
    [id |-> generateId(clock, rnd),
     type |-> in.type, title |-> in.title, message |-> in.message,
     severity |-> in.severity, pipelineId |-> in.pipelineId,
     pipelineName |-> in.pipelineName, stage |-> in.stage,
     timestamp |-> clock, acknowledged |-> FALSE, resolved |-> FALSE,
     assignee |-> UNDEF,
     tags |-> generateTags(in.type, in.severity, in.pipelineName, in.stage),
     actions |-> generateActions(in.type, in.severity),
     metadata |-> [branch |-> in.metadata.branch, developer |-> in.metadata.developer,
                   acknowledgedBy |-> UNDEF, acknowledgedAt |-> NoTime,
                   resolvedBy |-> UNDEF, resolvedAt |-> NoTime,
                   assignedBy |-> UNDEF, assignedAt |-> NoTime]]

createNotification(in, rnd) ==
    LET n0 == NewNotification(in, rnd)
        pushed == Append(notifications, n0)
        n1 == processRules(n0)
        stored == [pushed EXCEPT ![Len(pushed)] = n1]
        out == notifySubscribers(subscribers, n1, stored)
    IN  /\ notifications' = stored
        /\ delivered' = out.delivered
        /\ ret' = [op |-> "createNotification", id |-> n1.id, again |-> FALSE,
                   threw |-> out.error, value |-> n1,
                   subs |-> subscribers, live |-> subscribed]
        /\ UNCHANGED << clock, subscribers, subscribed, subCount, lifecycleOps >>

\* a rule whose regex condition does not compile, ahead of the default rules
BadRegexRule ==
    [id |-> "broken_regex",
     conditions |-> << [field |-> "failure_reason", operator |-> "regex", value |-> "A("] >>,
     actions |-> << [id |-> "broken_action", action |-> "escalate"] >>,
     priority |-> 0, enabled |-> TRUE]

RuleLists == {rules, << BadRegexRule >> \o rules}

\* createNotification of a manager whose this.rules is rs
createNotificationUnder(rs, in, rnd) ==
    LET n0 == NewNotification(in, rnd)
        pushed == Append(notifications, n0)
        n1 == processRulesFrom(n0, SelectSeq(rs, IsEnabled), 1)
        stored == [pushed EXCEPT ![Len(pushed)] = n1]
        out == notifySubscribers(subscribers, n1, stored)
    IN  /\ notifications' = stored
        /\ delivered' = out.delivered
        /\ ret' = [op |-> "createNotification", id |-> n1.id, again |-> FALSE,
                   threw |-> out.error, value |-> n1, rules |-> rs,
                   subs |-> subscribers, live |-> subscribed]
        /\ UNCHANGED << clock, subscribers, subscribed, subCount, lifecycleOps >>

(***************************************************************************)
(* acknowledge / resolve / assign / cleanup / getNotifications             *)
(***************************************************************************)
\* a lookup that compares only the time part of the id
findByTime(store, id) ==
    IF \E i \in 1..Len(store) : store[i].id.time = id.time
    THEN CHOOSE i \in 1..Len(store) :
            store[i].id.time = id.time /\ \A j \in 1..(i - 1) : store[j].id.time # id.time
    ELSE 0

\* this.notifications.find(n => n.id === notificationId), as an index; 0 = none
find(store, id) ==
    IF \E i \in 1..Len(store) : store[i].id = id
    THEN CHOOSE i \in 1..Len(store) :
            store[i].id = id /\ \A j \in 1..(i - 1) : store[j].id # id
    ELSE 0

\* an acknowledge that flips the flag instead of setting it
acknowledgeToggle(id, userId) ==
    LET i == find(notifications, id)
    IN  /\ notifications' =
              IF i # 0
              THEN [notifications EXCEPT ![i].acknowledged = ~notifications[i].acknowledged,
                                         ![i].metadata.acknowledgedBy = userId,
                                         ![i].metadata.acknowledgedAt = clock]
              ELSE notifications
        /\ ret' = [op |-> "acknowledge", id |-> id, again |-> Again("acknowledge", id),
                   value |-> (i # 0)]
        /\ lifecycleOps' = lifecycleOps + 1
        /\ UNCHANGED << clock, subscribers, subscribed, subCount, delivered >>

acknowledgeNotification(id, userId) ==
    LET i == find(notifications, id)
    IN  /\ notifications' =
              IF i # 0
              THEN [notifications EXCEPT ![i].acknowledged = TRUE,
                                         ![i].metadata.acknowledgedBy = userId,
                                         ![i].metadata.acknowledgedAt = clock]
              ELSE notifications
        /\ ret' = [op |-> "acknowledge", id |-> id, again |-> Again("acknowledge", id),
                   value |-> (i # 0)]
        /\ lifecycleOps' = lifecycleOps + 1
        /\ UNCHANGED << clock, subscribers, subscribed, subCount, delivered >>

\* a resolve that reopens the acknowledgement
resolveAndUnacknowledge(id, userId) ==
    LET i == find(notifications, id)
    IN  /\ notifications' =
              IF i # 0
              THEN [notifications EXCEPT ![i].resolved = TRUE, ![i].acknowledged = FALSE,
                                         ![i].metadata.resolvedBy = userId,
                                         ![i].metadata.resolvedAt = clock]
              ELSE notifications
        /\ ret' = [op |-> "resolve", id |-> id, again |-> Again("resolve", id),
                   value |-> (i # 0)]
        /\ lifecycleOps' = lifecycleOps + 1
        /\ UNCHANGED << clock, subscribers, subscribed, subCount, delivered >>

\* a resolve that acknowledges as well
resolveAndAcknowledge(id, userId) ==
    LET i == find(notifications, id)
    IN  /\ notifications' =
              IF i # 0
              THEN [notifications EXCEPT ![i].resolved = TRUE, ![i].acknowledged = TRUE,
                                         ![i].metadata.resolvedBy = userId,
                                         ![i].metadata.resolvedAt = clock]
              ELSE notifications
        /\ ret' = [op |-> "resolve", id |-> id, again |-> Again("resolve", id),
                   value |-> (i # 0)]
        /\ lifecycleOps' = lifecycleOps + 1
        /\ UNCHANGED << clock, subscribers, subscribed, subCount, delivered >>

resolveNotification(id, userId) ==
    LET i == find(notifications, id)
    IN  /\ notifications' =
              IF i # 0
              THEN [notifications EXCEPT ![i].resolved = TRUE,
                                         ![i].metadata.resolvedBy = userId,
                                         ![i].metadata.resolvedAt = clock]
              ELSE notifications
        /\ ret' = [op |-> "resolve", id |-> id, again |-> Again("resolve", id),
                   value |-> (i # 0)]
        /\ lifecycleOps' = lifecycleOps + 1
        /\ UNCHANGED << clock, subscribers, subscribed, subCount, delivered >>

assignNotification(id, assignee, userId) ==
    LET i == find(notifications, id)
    IN  /\ notifications' =
              IF i # 0
              THEN [notifications EXCEPT ![i].assignee = assignee,
                                         ![i].metadata.assignedBy = userId,
                                         ![i].metadata.assignedAt = clock]
              ELSE notifications
        /\ ret' = [op |-> "assign", id |-> id, again |-> Again("assign", id),
                   value |-> (i # 0)]
        /\ lifecycleOps' = lifecycleOps + 1
        /\ UNCHANGED << clock, subscribers, subscribed, subCount, delivered >>

cleanup ==
    LET thirtyDaysAgo == clock - ThirtyDays
        Recent(n) == n.timestamp > thirtyDaysAgo
    IN  /\ notifications' = SelectSeq(notifications, Recent)
        /\ ret' = [op |-> "cleanup", id |-> NoId, again |-> FALSE,
                   now |-> clock, before |-> notifications,
                   value |-> SelectSeq(notifications, Recent)]
        /\ UNCHANGED << clock, subscribers, subscribed, subCount, delivered, lifecycleOps >>

GetNotifications(f) ==
    /\ ret' = [op |-> "getNotifications", id |-> NoId, again |-> FALSE,
               filters |-> f, store |-> notifications,
               value |-> getNotifications(notifications, f)]
    /\ UNCHANGED << clock, notifications, subscribers, subscribed, subCount, delivered, lifecycleOps >>

(***************************************************************************)
(* getNotificationStats                                                    *)
(***************************************************************************)
MinutesPerDay == 1440

\* reduce((acc, n) => { acc[key] = (acc[key] || 0) + 1 }, {}) over the keys
\* of the notifications counted
Tally(keys) ==
    [k \in {keys[i] : i \in 1..Len(keys)} |-> Cardinality({i \in 1..Len(keys) : keys[i] = k})]

RECURSIVE sumResolutionTime(_, _)
sumResolutionTime(resolved, i) ==
    IF i > Len(resolved) THEN 0
    ELSE (resolved[i].metadata.resolvedAt - resolved[i].timestamp) + sumResolutionTime(resolved, i + 1)

\* Math.round of a non-negative quotient a / b
MathRoundDiv(a, b) == (2 * a + b) \div (2 * b)

IsEscalated(n) == \E j \in 1..Len(n.actions) : n.actions[j].action = "escalate"

\* an escalation rate that is cut off instead of rounded
escalationRateTruncated(store) ==
    LET IsEsc(n) == IsEscalated(n)
    IN  IF Len(store) > 0 THEN (Len(SelectSeq(store, IsEsc)) * 100) \div Len(store) ELSE 0

escalationRate(store) ==
    LET IsEsc(n) == IsEscalated(n)
        escalatedNotifications == SelectSeq(store, IsEsc)
    IN  IF Len(store) > 0 THEN MathRoundDiv(Len(escalatedNotifications) * 100, Len(store)) ELSE 0

getNotificationStats(store) ==
    LET NotAcked(n) == ~n.acknowledged
        NotResolved(n) == ~n.resolved
        HasPipeline(n) == Truthy(n.pipelineName)
        named == SelectSeq(store, HasPipeline)
        IsResolved(n) == n.resolved /\ n.metadata.resolvedAt # NoTime
        resolvedNotifications == SelectSeq(store, IsResolved)
    IN  [total |-> Len(store),
         unacknowledged |-> Len(SelectSeq(store, NotAcked)),
         unresolved |-> Len(SelectSeq(store, NotResolved)),
         byType |-> Tally([i \in 1..Len(store) |-> store[i].type]),
         bySeverity |-> Tally([i \in 1..Len(store) |-> store[i].severity]),
         byPipeline |-> Tally([i \in 1..Len(named) |-> named[i].pipelineName]),
         avgResolutionTime |->
             IF Len(resolvedNotifications) > 0
             THEN MathRoundDiv(sumResolutionTime(resolvedNotifications, 1) * MinutesPerDay,
                               Len(resolvedNotifications))
             ELSE 0,
         escalationRate |-> escalationRate(store)]

GetNotificationStats ==
    /\ ret' = [op |-> "getNotificationStats", id |-> NoId, again |-> FALSE,
               store |-> notifications, value |-> getNotificationStats(notifications)]
    /\ UNCHANGED << clock, notifications, subscribers, subscribed, subCount, delivered, lifecycleOps >>

\* the response of the notification action route
ActionResponse(body, status, text) ==
    [route |-> "notifications.action", action |-> body.action, status |-> status,
     body |-> text, request |-> body,
     before |-> notifications, after |-> notifications']

\* a route that passes an assign request on without looking at the assignee
NotificationActionUnchecked(body) ==
    CASE body.action = "acknowledge" ->
            /\ acknowledgeNotification(body.notificationId, body.userId)
            /\ response' = ActionResponse(body, IF ret'.value THEN 200 ELSE 404, "acknowledge")
      [] body.action = "resolve" ->
            /\ resolveNotification(body.notificationId, body.userId)
            /\ response' = ActionResponse(body, IF ret'.value THEN 200 ELSE 404, "resolve")
      [] body.action = "assign" ->
            /\ assignNotification(body.notificationId, body.assignee, body.userId)
            /\ response' = ActionResponse(body, IF ret'.value THEN 200 ELSE 404, "assign")
      [] OTHER ->
            /\ UNCHANGED managerVars
            /\ response' = ActionResponse(body, 400, "Invalid action")

\* POST of the notification action route
NotificationAction(body) ==
    IF ~Truthy(body.action) \/ body.notificationId = NoId
    THEN /\ UNCHANGED managerVars
         /\ response' = ActionResponse(body, 400, "Missing required parameters: action, notificationId")
    ELSE CASE body.action = "acknowledge" ->
                 /\ acknowledgeNotification(body.notificationId, body.userId)
                 /\ response' = ActionResponse(body, IF ret'.value THEN 200 ELSE 404,
                                       IF ret'.value THEN "Notification acknowledged successfully"
                                       ELSE "Notification not found")
           [] body.action = "resolve" ->
                 /\ resolveNotification(body.notificationId, body.userId)
                 /\ response' = ActionResponse(body, IF ret'.value THEN 200 ELSE 404,
                                       IF ret'.value THEN "Notification resolved successfully"
                                       ELSE "Notification not found")
           [] body.action = "assign" ->
                 IF ~Truthy(body.assignee)
                 THEN /\ UNCHANGED managerVars
                      /\ response' = ActionResponse(body, 400, "Missing assignee parameter")
                 ELSE /\ assignNotification(body.notificationId, body.assignee, body.userId)
                      /\ response' = ActionResponse(body, IF ret'.value THEN 200 ELSE 404,
                                            IF ret'.value THEN "Notification assigned successfully"
                                            ELSE "Notification not found")
           [] OTHER ->
                 /\ UNCHANGED managerVars
                 /\ response' = ActionResponse(body, 400, "Invalid action")

\* request bodies of the notification action route
\* the ids a request names: those of stored notifications, one of no stored
\* notification, and none
ActionIds ==
    {notifications[k].id : k \in 1..Len(notifications)} \cup {generateId(clock + TickStep, 1), NoId}

ActionBodies ==
    { [action |-> a, notificationId |-> id, userId |-> "alice", assignee |-> UNDEF] :
        a \in {"acknowledge", "resolve", "dismiss", UNDEF}, id \in ActionIds }
    \cup { [action |-> "assign", notificationId |-> id, userId |-> "alice", assignee |-> who] :
              id \in ActionIds, who \in {"bob", "", UNDEF} }

(***************************************************************************)
(* Failure analyzer (src/src/app/page.tsx).                                *)
(***************************************************************************)
\* FailureAnalyzer.categories: id, patterns, severity, autoFixAvailable
categories ==
    << [id |-> "timeout", severity |-> "medium", autoFixAvailable |-> TRUE,
        patterns |-> << "timeout", "timed out", "time limit exceeded", "deadline exceeded" >>],
       [id |-> "memory", severity |-> "high", autoFixAvailable |-> TRUE,
        patterns |-> << "out of memory", "memory limit", "oom", "heap space", "memory exhausted" >>],
       [id |-> "network", severity |-> "medium", autoFixAvailable |-> TRUE,
        patterns |-> << "network", "connection refused", "dns", "timeout", "unreachable" >>],
       [id |-> "dependency", severity |-> "medium", autoFixAvailable |-> TRUE,
        patterns |-> << "dependency", "package", "library", "version conflict", "compatibility" >>],
       [id |-> "permission", severity |-> "medium", autoFixAvailable |-> TRUE,
        patterns |-> << "permission", "access denied", "unauthorized", "forbidden", "read-only" >>],
       [id |-> "disk-space", severity |-> "high", autoFixAvailable |-> TRUE,
        patterns |-> << "disk space", "no space left", "storage full", "quota exceeded" >>],
       [id |-> "test-failure", severity |-> "low", autoFixAvailable |-> FALSE,
        patterns |-> << "test failed", "assertion", "test error", "test suite", "spec failed" >>],
       [id |-> "configuration", severity |-> "medium", autoFixAvailable |-> TRUE,
        patterns |-> << "configuration", "config", "environment variable", "setting", "property" >>] >>

\* a substitute category that claims an automatic fix
UnknownCategoryAutoFix ==
    [id |-> "unknown", severity |-> "medium", autoFixAvailable |-> TRUE, patterns |-> << >>]

\* the category analyzeFailure substitutes when categorizeFailure returns null
UnknownCategory ==
    [id |-> "unknown", severity |-> "medium", autoFixAvailable |-> FALSE, patterns |-> << >>]

Null == [id |-> "<null>"]

\* Array.prototype.join(' ')
RECURSIVE joinFrom(_, _)
joinFrom(lines, i) ==
    IF i > Len(lines) THEN ""
    ELSE IF i = Len(lines) THEN lines[i]
    ELSE lines[i] \o " " \o joinFrom(lines, i + 1)

join(lines) == joinFrom(lines, 1)

\* `${failureReason} ${logs.join(' ')}`.toLowerCase()
FailureText(failureReason, logs) == toLowerCase(failureReason \o " " \o join(logs))

MatchesCategory(text, category) ==
    \E j \in 1..Len(category.patterns) : includes(text, toLowerCase(category.patterns[j]))

RECURSIVE categorizeFrom(_, _)
categorizeFrom(text, i) ==
    IF i > Len(categories) THEN Null
    ELSE IF MatchesCategory(text, categories[i]) THEN categories[i]
    ELSE categorizeFrom(text, i + 1)

\* a classifier that returns the last matching category of the table
categorizeFailureLast(failureReason, logs) ==
    LET text == FailureText(failureReason, logs)
        matching == {i \in 1..Len(categories) : MatchesCategory(text, categories[i])}
    IN  IF matching = {} THEN Null
        ELSE categories[CHOOSE i \in matching : \A j \in matching : j <= i]

categorizeFailure(failureReason, logs) == categorizeFrom(FailureText(failureReason, logs), 1)

\* Numbers are counted in twentieths (4 and 5, the pattern counts, divide 20);
\* NaN is the one value that is no number.
Scale == 4 * 5
One == Scale
SpecificityBonus == Scale \div 5     \* 0.2

\* a / b in IEEE-754 arithmetic, for 0 <= a <= b
Divide(a, b) == IF b = 0 THEN NaN ELSE (a * Scale) \div b

MathMin(x, y) == IF x = NaN \/ y = NaN THEN NaN ELSE Min(x, y)

Plus(x, y) == IF x = NaN \/ y = NaN THEN NaN ELSE x + y

\* a confidence that counts a category's matching patterns as one
calculateConfidenceFirstMatch(failureReason, logs, category) ==
    LET text == FailureText(failureReason, logs)
        matchCount == IF MatchesCategory(text, category) THEN 1 ELSE 0
        baseConfidence == MathMin(Divide(matchCount, Len(category.patterns)), One)
        specificityBonus == IF category.id = "unknown" THEN 0 ELSE SpecificityBonus
    IN  MathMin(Plus(baseConfidence, specificityBonus), One)

calculateConfidence(failureReason, logs, category) ==
    LET text == FailureText(failureReason, logs)
        matchCount == Cardinality({j \in 1..Len(category.patterns) :
                                      includes(text, toLowerCase(category.patterns[j]))})
        baseConfidence == MathMin(Divide(matchCount, Len(category.patterns)), One)
        specificityBonus == IF category.id = "unknown" THEN 0 ELSE SpecificityBonus
    IN  MathMin(Plus(baseConfidence, specificityBonus), One)

analyzeFailure(pipelineId, failureReason, logs, historicalFailures) ==
    LET found == categorizeFailure(failureReason, logs)
        category == IF found.id # Null.id THEN found ELSE UnknownCategory
        Similar(f) == f.category.id = category.id /\ f.pipelineId # pipelineId
    IN  [pipelineId |-> pipelineId, failureReason |-> failureReason,
         category |-> category,
         confidence |-> calculateConfidence(failureReason, logs, category),
         logs |-> logs,
         similarFailures |-> SelectSeq(historicalFailures, Similar)]

PipelineIds == {"p1", "p2"}

FailureReasons ==
    { "Build TIMED OUT after 30m", "Timeout: deadline exceeded", "java.lang.OutOfMemoryError",
      "Connection refused", "npm package version conflict", "Permission denied: read-only",
      "no space left on device", "Test failed: assertion error", "attested build broke",
      "Invalid CONFIG setting", "compile error", "" }

LogLines == { "heap space exhausted: out of memory, OOM", "network unreachable", "exit code 1" }

LogInputs == { << >>, << "exit code 1", "network unreachable" >> } \cup { << l >> : l \in LogLines }

HistoryInputs ==
    { << >>,
      << [pipelineId |-> "p1", category |-> [id |-> "timeout"]],
         [pipelineId |-> "p2", category |-> [id |-> "unknown"]] >> }

AnalyzeFailure(pipelineId, failureReason, logs, historicalFailures) ==
    analysis' = [op |-> "analyzeFailure",
                 value |-> analyzeFailure(pipelineId, failureReason, logs, historicalFailures)]

CategorizeFailure(failureReason, logs) ==
    analysis' = [op |-> "categorizeFailure", failureReason |-> failureReason, logs |-> logs,
                 value |-> categorizeFailure(failureReason, logs)]

(***************************************************************************)
(* Knowledge base: catalog data and pure functions.                        *)
(***************************************************************************)
\* Numbers of the catalog are integers; three values stand for the doubles
\* and the JSON value that are no integer.
Infinity == 1000000        \* what JSON.parse gives for a literal like 1e999
NullNumber == -2           \* the JSON value null where a number is expected

\* ToNumber, as the subtraction in a sort comparator applies it
Num(x) == IF x = NullNumber \/ x = NaN THEN 0 ELSE x

\* the keys of catalog entries that hold numbers, and those that hold strings
NumberKeys == {"estimatedFixTime", "successRate", "version", "frequency"}
StringKeys == {"id", "title", "category", "severity", "autoFixScript", "name", "regex", "solutionId"}

\* the value null where a string is expected
NullString == "<null>"

\* KnowledgeBase.initializeDefaultSolutions (scripts by their first line)
DefaultSolutions ==
    << [id |-> "timeout_fix", title |-> "Pipeline Timeout Issues",
        category |-> "timeout", severity |-> "medium",
        problemPatterns |-> << "timeout", "timed out", "time limit exceeded" >>,
        tags |-> << "timeout", "performance", "configuration" >>,
        estimatedFixTime |-> 30, successRate |-> 85, lastUpdated |-> 0, version |-> 2,
        verified |-> TRUE, autoFixAvailable |-> TRUE, autoFixScript |-> "#!/bin/bash timeout"],
       [id |-> "memory_fix", title |-> "Memory Issues Resolution",
        category |-> "memory", severity |-> "high",
        problemPatterns |-> << "out of memory", "memory limit", "oom", "heap space" >>,
        tags |-> << "memory", "jvm", "performance" >>,
        estimatedFixTime |-> 45, successRate |-> 92, lastUpdated |-> 0, version |-> 3,
        verified |-> TRUE, autoFixAvailable |-> TRUE, autoFixScript |-> "#!/bin/bash memory"],
       [id |-> "dependency_fix", title |-> "Dependency Resolution Issues",
        category |-> "dependency", severity |-> "medium",
        problemPatterns |-> << "dependency", "version conflict", "compatibility", "unable to resolve" >>,
        tags |-> << "dependency", "maven", "gradle", "npm" >>,
        estimatedFixTime |-> 60, successRate |-> 88, lastUpdated |-> 0, version |-> 2,
        verified |-> TRUE, autoFixAvailable |-> TRUE, autoFixScript |-> "#!/bin/bash dependency"],
       [id |-> "network_fix", title |-> "Network Connectivity Issues",
        category |-> "network", severity |-> "medium",
        problemPatterns |-> << "network", "connection refused", "unreachable", "dns" >>,
        tags |-> << "network", "dns", "proxy", "connectivity" >>,
        estimatedFixTime |-> 20, successRate |-> 78, lastUpdated |-> 0, version |-> 1,
        verified |-> TRUE, autoFixAvailable |-> TRUE, autoFixScript |-> "#!/bin/bash network"] >>

\* KnowledgeBase.initializeDefaultPatterns
DefaultPatterns ==
    << [id |-> "timeout_pattern", name |-> "Build Timeout",
        regex |-> "(timeout|timed out|time limit exceeded)",
        category |-> "timeout", severity |-> "medium", frequency |-> 15, lastSeen |-> 0,
        solutionId |-> "timeout_fix"],
       [id |-> "memory_pattern", name |-> "Memory Issues",
        regex |-> "(out of memory|memory limit|oom|heap space)",
        category |-> "memory", severity |-> "high", frequency |-> 8, lastSeen |-> 0,
        solutionId |-> "memory_fix"],
       [id |-> "dependency_pattern", name |-> "Dependency Problems",
        regex |-> "(dependency|version conflict|unable to resolve)",
        category |-> "dependency", severity |-> "medium", frequency |-> 12, lastSeen |-> 0,
        solutionId |-> "dependency_fix"],
       [id |-> "network_pattern", name |-> "Network Issues",
        regex |-> "(network|connection refused|unreachable|dns)",
        category |-> "network", severity |-> "medium", frequency |-> 6, lastSeen |-> 0,
        solutionId |-> "network_fix"] >>

\* obj.key, undefined when the object has no such property
Get(obj, key) == IF key \in DOMAIN obj THEN obj[key] ELSE UNDEF

\* { ...a, ...b }
Spread(a, b) == [k \in DOMAIN a \cup DOMAIN b |-> IF k \in DOMAIN b THEN b[k] ELSE a[k]]

\* const { id, ...rest } = obj
Rest(obj, keys) == [k \in DOMAIN obj \ keys |-> obj[k]]

\* Array.prototype.sort with comparator cmp: stable, so an element goes after
\* the elements that compare smaller and the earlier ones that compare equal
\* (cmp[j, i] is the comparator's result for s[j] and s[i])
SortedBy(s, cmp) ==
    LET rank(i) == 1 + Cardinality({j \in 1..Len(s) :
                        \/ cmp[j, i] < 0
                        \/ (cmp[j, i] = 0 /\ j < i)})
    IN  [k \in 1..Len(s) |-> s[CHOOSE i \in 1..Len(s) : rank(i) = k]]

\* an Infinity operand makes a difference infinite, two of them make it NaN,
\* which sort treats as 0
Minus(x, y) ==
    CASE Num(x) = Infinity /\ Num(y) = Infinity -> 0
      [] Num(x) = Infinity -> Infinity
      [] Num(y) = Infinity -> -Infinity
      [] OTHER -> Num(x) - Num(y)

bySuccessRate(a, b) == Minus(b.successRate, a.successRate)

bySeverityThenSuccessRate(a, b) ==
    IF a.severity # b.severity
    THEN severityOrder(b.severity) - severityOrder(a.severity)
    ELSE Minus(b.successRate, a.successRate)

byFrequency(a, b) == Minus(b.frequency, a.frequency)

sortBySuccessRate(s) ==
    SortedBy(s, [j \in 1..Len(s), i \in 1..Len(s) |-> bySuccessRate(s[j], s[i])])

sortBySeverityThenSuccessRate(s) ==
    SortedBy(s, [j \in 1..Len(s), i \in 1..Len(s) |-> bySeverityThenSuccessRate(s[j], s[i])])

sortByFrequency(s) ==
    SortedBy(s, [j \in 1..Len(s), i \in 1..Len(s) |-> byFrequency(s[j], s[i])])

SomePattern(solution, text) ==
    \E i \in 1..Len(solution.problemPatterns) :
        includes(text, toLowerCase(solution.problemPatterns[i]))

findSolutions(catalog, failureReason, logs) ==
    LET text == FailureText(failureReason, logs)
        Matches(solution) == SomePattern(solution, text)
    IN  sortBySuccessRate(SelectSeq(catalog, Matches))

\* sorts this.solutions in place and returns it
getAllSolutions(catalog) == sortBySeverityThenSuccessRate(catalog)

getSolutionsByCategory(catalog, category) ==
    LET Is(solution) == solution.category = category IN SelectSeq(catalog, Is)

getSolutionsBySeverity(catalog, severity) ==
    LET Is(solution) == solution.severity = severity IN SelectSeq(catalog, Is)

searchSolutions(catalog, query) ==
    LET searchText == toLowerCase(query)
        Hit(solution) ==
            \/ includes(toLowerCase(solution.title), searchText)
            \/ \E i \in 1..Len(solution.problemPatterns) :
                   includes(toLowerCase(solution.problemPatterns[i]), searchText)
            \/ \E i \in 1..Len(solution.tags) : includes(toLowerCase(solution.tags[i]), searchText)
    IN  SelectSeq(catalog, Hit)

getAutoFixScript(catalog, failureReason) ==
    LET found == findSolutions(catalog, failureReason, << >>)
    IN  IF Len(found) > 0 /\ Truthy(Get(found[1], "autoFixScript"))
        THEN found[1].autoFixScript ELSE NullString

\* the alternatives of a regular expression of the form (a|b|c)
RegexDelimiters(regex) == {i \in 1..Len(regex) : CharAt(regex, i) \in {"(", "|", ")"}}

RegexAlternatives(regex) ==
    {SubSeq(regex, i + 1, j - 1) : <<i, j>> \in
        {p \in RegexDelimiters(regex) \X RegexDelimiters(regex) :
            p[1] < p[2] /\ \A k \in RegexDelimiters(regex) : ~(p[1] < k /\ k < p[2])}}

\* new RegExp(regex, 'i').test(text)
RegExpTest(regex, text) ==
    \E alternative \in RegexAlternatives(regex) : includes(toLowerCase(text), toLowerCase(alternative))

\* what a caller gets when an error is thrown at it
Thrown == [id |-> "<error>"]

\* a recognition loop without the try/catch around new RegExp
RECURSIVE recognizeFromNoCatch(_, _, _)
recognizeFromNoCatch(list, text, i) ==
    IF i > Len(list) THEN Null
    ELSE IF RegexThrows(list[i].regex) THEN Thrown
    ELSE IF RegExpTest(list[i].regex, text) THEN list[i]
    ELSE recognizeFromNoCatch(list, text, i + 1)

RECURSIVE recognizeFrom(_, _, _)
recognizeFrom(list, text, i) ==
    IF i > Len(list) THEN Null
    ELSE IF ~RegexThrows(list[i].regex) /\ RegExpTest(list[i].regex, text) THEN list[i]
    ELSE recognizeFrom(list, text, i + 1)

recognizeFailurePattern(list, text) == recognizeFrom(list, text, 1)

RECURSIVE Sum(_, _)
Sum(s, i) == IF i > Len(s) THEN 0 ELSE Num(s[i].estimatedFixTime) + Sum(s, i + 1)

CountBy(catalog, key, val) == Cardinality({i \in 1..Len(catalog) : catalog[i][key] = val})

\* Math.round of the non-negative quotient a / b
RoundDiv(a, b) == (2 * a + b) \div (2 * b)

\* the fields of getStats() computed from this.solutions
getStats(catalog, list) ==
    [totalSolutions |-> Len(catalog),
     solutionsBySeverity |-> [sev \in {catalog[i].severity : i \in 1..Len(catalog)} |->
                                 CountBy(catalog, "severity", sev)],
     solutionsByCategory |-> [cat \in {catalog[i].category : i \in 1..Len(catalog)} |->
                                 CountBy(catalog, "category", cat)],
     averageFixTime |-> IF Len(catalog) > 0 THEN RoundDiv(Sum(catalog, 1), Len(catalog)) ELSE 0,
     topSuccessRate |-> IF Len(catalog) > 0
                        THEN CHOOSE m \in {Num(catalog[i].successRate) : i \in 1..Len(catalog)} :
                                 \A i \in 1..Len(catalog) : Num(catalog[i].successRate) <= m
                        ELSE 0,
     verifiedSolutions |-> CountBy(catalog, "verified", TRUE),
     autoFixAvailable |-> CountBy(catalog, "autoFixAvailable", TRUE),
     commonPatterns |-> SubSeq(sortByFrequency(list), 1, Min(10, Len(list)))]

\* sol_${Date.now()}_${Math.random().toString(36).substr(2, 9)}
generateSolutionId(now, rnd) == "sol_" \o ToString(now) \o "_" \o ToString(rnd)

\* JSON.stringify of one number: a double that is not finite becomes null
stringifyNumber(x) == IF x = Infinity \/ x = -Infinity \/ x = NaN THEN NullNumber ELSE x

\* JSON.stringify of one catalog entry, as the abstract syntax of the text:
\* properties holding undefined are left out
stringifyEntry(entry) ==
    [k \in {key \in DOMAIN entry : ~(key \in StringKeys /\ entry[key] = UNDEF)} |->
        IF k \in NumberKeys THEN stringifyNumber(entry[k]) ELSE entry[k]]

stringifyList(list) == [i \in 1..Len(list) |-> stringifyEntry(list[i])]

\* the text a malformed document stands for
InvalidJson == [valid |-> FALSE]

(***************************************************************************)
(* Knowledge base: operations and routes.                                  *)
(***************************************************************************)
IndexOfSolution(catalog, id) ==
    IF \E i \in 1..Len(catalog) : catalog[i].id = id
    THEN CHOOSE i \in 1..Len(catalog) : catalog[i].id = id /\ \A j \in 1..(i - 1) : catalog[j].id # id
    ELSE 0

\* the entry addSolution pushes and returns
addSolution(solution, now, rnd) ==
    Spread(solution, [id |-> generateSolutionId(now, rnd), lastUpdated |-> now, version |-> 1])

\* an update whose own fields win over the version and the timestamp
updateSolutionUpdatesLast(catalog, i, updates, now) ==
    [catalog EXCEPT ![i] = Spread(Spread(catalog[i],
                                         [lastUpdated |-> now, version |-> catalog[i].version + 1]),
                                  updates)]

\* the list updateSolution leaves; the caller has found the id at index i
updateSolution(catalog, i, updates, now) ==
    [catalog EXCEPT ![i] = Spread(Spread(catalog[i], updates),
                                  [lastUpdated |-> now, version |-> catalog[i].version + 1])]

\* splice(i, 1)
deleteSolution(catalog, i) == SubSeq(catalog, 1, i - 1) \o SubSeq(catalog, i + 1, Len(catalog))

\* the document exportSolutions returns
exportSolutions(catalog, list, now) ==
    [valid |-> TRUE,
     data |-> [solutions |-> stringifyList(catalog), patterns |-> stringifyList(list),
               exportedAt |-> now]]

RouteResponse(route, action, status, body) ==
    [route |-> route, action |-> action, status |-> status, body |-> body,
     before |-> [solutions |-> solutions, patterns |-> patterns],
     after |-> [solutions |-> solutions', patterns |-> patterns']]

\* GET /api/knowledge-base
KbGet(params) ==
    /\ UNCHANGED << clock, catalogOps, kbRet >>
    /\ CASE params.action = "stats" ->
              /\ patterns' = sortByFrequency(patterns)
              /\ solutions' = solutions
              /\ response' = RouteResponse("kb.GET", params.action, 200, getStats(solutions, patterns))
         [] params.action = "search" /\ Truthy(params.query) ->
              /\ UNCHANGED << solutions, patterns >>
              /\ response' = RouteResponse("kb.GET", params.action, 200,
                                           searchSolutions(solutions, params.query))
         [] params.action = "category" /\ Truthy(params.category) ->
              /\ UNCHANGED << solutions, patterns >>
              /\ response' = RouteResponse("kb.GET", params.action, 200,
                                           getSolutionsByCategory(solutions, params.category))
         [] params.action = "severity" /\ Truthy(params.severity) ->
              /\ UNCHANGED << solutions, patterns >>
              /\ response' = RouteResponse("kb.GET", params.action, 200,
                                           getSolutionsBySeverity(solutions, params.severity))
         [] OTHER ->
              /\ solutions' = getAllSolutions(solutions)
              /\ patterns' = patterns
              /\ response' = RouteResponse("kb.GET", params.action, 200, getAllSolutions(solutions))

\* POST /api/knowledge-base
KbPost(body, rnd) ==
    LET action == Get(body, "action")
        data == Rest(body, {"action"})
    IN  /\ UNCHANGED << clock, patterns, kbRet >>
        /\ CASE action = "find-solutions" ->
                  /\ UNCHANGED << solutions, catalogOps >>
                  /\ response' = RouteResponse("kb.POST", action, 200,
                                     findSolutions(solutions, data.failureReason,
                                                   IF "logs" \in DOMAIN data THEN data.logs ELSE << >>))
             [] action = "add-solution" ->
                  /\ solutions' = Append(solutions, addSolution(data, clock, rnd))
                  /\ catalogOps' = catalogOps + 1
                  /\ response' = RouteResponse("kb.POST", action, 200, addSolution(data, clock, rnd))
             [] action = "get-autofix" ->
                  /\ UNCHANGED << solutions, catalogOps >>
                  /\ response' = RouteResponse("kb.POST", action, 200,
                                     [script |-> getAutoFixScript(solutions, data.failureReason)])
             [] action = "recognize-pattern" ->
                  /\ UNCHANGED << solutions, catalogOps >>
                  /\ response' = RouteResponse("kb.POST", action, 200,
                                     recognizeFailurePattern(patterns, data.text))
             [] OTHER ->
                  /\ UNCHANGED << solutions, catalogOps >>
                  /\ response' = RouteResponse("kb.POST", action, 400, [error |-> "Invalid action"])

\* PUT /api/knowledge-base
KbPut(body) ==
    LET id == Get(body, "id")
        updates == Rest(body, {"id"})
        i == IndexOfSolution(solutions, id)
    IN  /\ UNCHANGED << clock, patterns, kbRet >>
        /\ catalogOps' = catalogOps + 1
        /\ IF i = 0
           THEN /\ solutions' = solutions
                /\ response' = Spread(RouteResponse("kb.PUT", "update", 404,
                                                    [error |-> "Solution not found"]),
                                      [request |-> body])
           ELSE /\ solutions' = updateSolution(solutions, i, updates, clock)
                /\ response' = Spread(RouteResponse("kb.PUT", "update", 200,
                                                    updateSolution(solutions, i, updates, clock)[i]),
                                      [request |-> body])

\* DELETE /api/knowledge-base
KbDelete(id) ==
    LET i == IndexOfSolution(solutions, id)
    IN  /\ UNCHANGED << clock, patterns, kbRet >>
        /\ IF ~Truthy(id)
           THEN /\ UNCHANGED << solutions, catalogOps >>
                /\ response' = RouteResponse("kb.DELETE", "delete", 400, [error |-> "Missing solution ID"])
           ELSE /\ catalogOps' = catalogOps + 1
                /\ IF i = 0
                   THEN /\ solutions' = solutions
                        /\ response' = Spread(RouteResponse("kb.DELETE", "delete", 404,
                                                            [error |-> "Solution not found"]),
                                              [request |-> [id |-> id]])
                   ELSE /\ solutions' = deleteSolution(solutions, i)
                        /\ response' = Spread(RouteResponse("kb.DELETE", "delete", 200,
                                                            [success |-> TRUE]),
                                              [request |-> [id |-> id]])

\* knowledgeBase.exportSolutions()
ExportSolutions ==
    /\ kbRet' = [op |-> "exportSolutions", value |-> exportSolutions(solutions, patterns, clock)]
    /\ UNCHANGED << clock, solutions, patterns, catalogOps, response >>

\* knowledgeBase.importSolutions(jsonData): JSON.parse throws on a malformed
\* text and otherwise gives the object the text denotes
importSolutions(jsonData) ==
    LET threw == ~jsonData.valid
        data == jsonData.data
        newSolutions == IF ~threw /\ "solutions" \in DOMAIN data THEN data.solutions ELSE solutions
        newPatterns == IF ~threw /\ "patterns" \in DOMAIN data THEN data.patterns ELSE patterns
    IN  /\ solutions' = newSolutions
        /\ patterns' = newPatterns
        /\ kbRet' = [op |-> "importSolutions", json |-> jsonData, value |-> ~threw,
                     before |-> [solutions |-> solutions, patterns |-> patterns],
                     after |-> [solutions |-> newSolutions, patterns |-> newPatterns]]
        /\ UNCHANGED << clock, catalogOps, response >>

\* the entry addFailurePattern pushes and returns
addFailurePattern(pattern, now, rnd) ==
    Spread(pattern, [id |-> generateSolutionId(now, rnd), lastSeen |-> now])

AddFailurePattern(pattern, rnd) ==
    /\ patterns' = Append(patterns, addFailurePattern(pattern, clock, rnd))
    /\ kbRet' = [op |-> "addFailurePattern", value |-> addFailurePattern(pattern, clock, rnd)]
    /\ UNCHANGED << clock, solutions, catalogOps, response >>

RecognizeFailurePattern(text) ==
    /\ kbRet' = [op |-> "recognizeFailurePattern", text |-> text, list |-> patterns,
                 value |-> recognizeFailurePattern(patterns, text)]
    /\ UNCHANGED << clock, solutions, patterns, catalogOps, response >>

\* patterns handed to addFailurePattern: one whose regex does not compile
PatternInputs ==
    { [name |-> "Broken", description |-> "unbalanced group", regex |-> "a(",
       category |-> "disk-space", severity |-> "high", frequency |-> 1],
      [name |-> "Disk Space", description |-> "disk is full", regex |-> "(disk|quota)",
       category |-> "disk-space", severity |-> "high", frequency |-> 3] }

RecognizeTexts == {"Disk QUOTA exceeded", "Connection refused by host", "all green"}

\* request bodies of add-solution
SolutionInputs ==
    { [title |-> "Disk Cleanup", category |-> "disk-space", severity |-> "critical",
       problemPatterns |-> << "no space left" >>, tags |-> << "disk" >>,
       estimatedFixTime |-> 10, successRate |-> 95, verified |-> FALSE, autoFixAvailable |-> FALSE],
      [title |-> "Flaky Tests", category |-> "test-failure", severity |-> "medium",
       problemPatterns |-> << "test failed", "timed out" >>, tags |-> << "tests" >>,
       estimatedFixTime |-> Infinity, successRate |-> 85, verified |-> TRUE,
       autoFixAvailable |-> FALSE] }

AddBodies == { Spread(s, [action |-> "add-solution"]) : s \in SolutionInputs }

PostBodies ==
    AddBodies
    \cup { [action |-> "find-solutions", failureReason |-> "Connection TIMED OUT"],
           [action |-> "find-solutions", failureReason |-> "build broke",
            logs |-> << "DNS unreachable", "Out of Memory" >>],
           [action |-> "get-autofix", failureReason |-> "java heap space"],
           [action |-> "get-autofix", failureReason |-> "compile error"],
           [action |-> "recognize-pattern", text |-> "Unable to resolve host: DNS"],
           [action |-> "recognize-pattern", text |-> "compile error"],
           [action |-> "export"],
           [failureReason |-> "timeout"] }

NoParams == [action |-> UNDEF, query |-> UNDEF, category |-> UNDEF, severity |-> UNDEF]

GetParams ==
    { NoParams,
      [NoParams EXCEPT !.action = "stats"],
      [NoParams EXCEPT !.action = "search", !.query = "DNS"],
      [NoParams EXCEPT !.action = "search"],
      [NoParams EXCEPT !.action = "category", !.category = "memory"],
      [NoParams EXCEPT !.action = "severity", !.severity = "medium"],
      [NoParams EXCEPT !.action = "export"] }

PutBodies ==
    { Spread(u, [id |-> id]) :
        u \in { [severity |-> "critical"], [version |-> 7, lastUpdated |-> 99] },
        id \in { "timeout_fix", "network_fix", "sol_0_1", "no_such_id" } }

DeleteIds == { "memory_fix", "sol_0_1", "no_such_id", UNDEF }

\* documents handed to importSolutions besides the one just exported
ForeignDocuments == { InvalidJson, [valid |-> TRUE, data |-> [exportedAt |-> 0]] }

(***************************************************************************)
(* Jenkins service: one shared instance, requests that interleave at their *)
(* awaits.                                                                 *)
(***************************************************************************)
Requests == 1..MaxRequests

\* the configuration request r carries in its query parameters; the last
\* request leaves out the token
ConfigOf(r) ==
    [url |-> "https://jenkins" \o ToString(r) \o ".example//",
     username |-> "user" \o ToString(r),
     apiToken |-> IF r > 2 /\ r = MaxRequests THEN "" ELSE "token" \o ToString(r)]

NoConfig == [url |-> UNDEF, username |-> UNDEF, apiToken |-> UNDEF]

\* replace(/\/+$/, '')
RECURSIVE stripTrailingSlashes(_)
stripTrailingSlashes(url) ==
    IF Len(url) > 0 /\ CharAt(url, Len(url)) = "/"
    THEN stripTrailingSlashes(SubSeq(url, 1, Len(url) - 1)) ELSE url

\* Buffer.from(`${username}:${apiToken}`).toString('base64'): an injective
\* encoding, kept as the text it encodes
BasicAuth(cfg) == [base64 |-> cfg.username \o ":" \o cfg.apiToken]

\* baseUrl + endpoint, the endpoint given with or without its leading slash
RequestUrl(cfg, endpoint) ==
    stripTrailingSlashes(cfg.url) \o (IF startsWith(endpoint, "/") THEN endpoint ELSE "/" \o endpoint)

JobsEndpoint == "/api/json?tree=jobs"
CrumbEndpoint == "/crumbIssuer/api/json"

\* a fetch() issued while request r is being handled
Fetched(r, cfg, endpoint) ==
    [request |-> r, url |-> RequestUrl(cfg, endpoint), authorization |-> BasicAuth(cfg)]

Idle == [pc |-> "idle", status |-> 0, auth |-> BasicAuth(NoConfig), baseUrl |-> UNDEF]

\* GET /api/jenkins/jobs up to its first await: the parameter check,
\* setConfig, getJobs and makeRequest up to `await fetch(url, ...)`
JobsRequest(r, cfg) ==
    /\ inflight[r].pc = "idle"
    /\ IF ~Truthy(cfg.url) \/ ~Truthy(cfg.username) \/ ~Truthy(cfg.apiToken)
       THEN /\ inflight' = [inflight EXCEPT ![r] = [@ EXCEPT !.pc = "done", !.status = 400]]
            /\ UNCHANGED << config, upstream >>
       ELSE /\ config' = cfg
            /\ upstream' = upstream \cup {Fetched(r, cfg, JobsEndpoint)}
            /\ inflight' = [inflight EXCEPT ![r] = [@ EXCEPT !.pc = "fetch"]]

\* makeRequest after `await fetch`: the JSON of an ok response is returned;
\* a 403 that mentions CSRF enters makeRequestWithCrumb, which reads
\* this.config and issues the crumb fetch; any other error is thrown, and
\* getJobs turns it into an empty list
FetchResponds(r, outcome) ==
    /\ inflight[r].pc = "fetch"
    /\ UNCHANGED config
    /\ CASE outcome = "ok" ->
              /\ inflight' = [inflight EXCEPT ![r] = [@ EXCEPT !.pc = "done", !.status = 200]]
              /\ UNCHANGED upstream
         [] outcome = "403 CSRF" ->
              /\ upstream' = upstream \cup {Fetched(r, config, CrumbEndpoint)}
              /\ inflight' = [inflight EXCEPT ![r] =
                                  [@ EXCEPT !.pc = "crumb", !.auth = BasicAuth(config),
                                            !.baseUrl = stripTrailingSlashes(config.url)]]
         [] OTHER ->
              /\ inflight' = [inflight EXCEPT ![r] = [@ EXCEPT !.pc = "done", !.status = 200]]
              /\ UNCHANGED upstream

\* makeRequestWithCrumb after the crumb fetch: with a crumb the request is
\* repeated with the auth and baseUrl computed on entry
CrumbResponds(r, ok) ==
    /\ inflight[r].pc = "crumb"
    /\ UNCHANGED config
    /\ IF ok
       THEN /\ upstream' = upstream \cup
                   {[request |-> r, url |-> inflight[r].baseUrl \o JobsEndpoint,
                     authorization |-> inflight[r].auth]}
            /\ inflight' = [inflight EXCEPT ![r] = [@ EXCEPT !.pc = "retry"]]
       ELSE /\ inflight' = [inflight EXCEPT ![r] = [@ EXCEPT !.pc = "done", !.status = 200]]
            /\ UNCHANGED upstream

\* the repeated request answers; getJobs returns the jobs or, on a throw, []
RetryResponds(r) ==
    /\ inflight[r].pc = "retry"
    /\ inflight' = [inflight EXCEPT ![r] = [@ EXCEPT !.pc = "done", !.status = 200]]
    /\ UNCHANGED << config, upstream >>

FetchOutcomes == {"ok", "403 CSRF", "500"}

(***************************************************************************)
(* GET /api/jenkins/build: the build details and their transformation.     *)
(***************************************************************************)
StageNames == << "Checkout", "Build", "Test" >>

StageStatuses == {"SUCCESS", "FAILED", "RUNNING", "PENDING"}

\* a JenkinsStage without steps; the stage at position i is named StageNames[i]
StagesOf(statuses) ==
    [i \in 1..Len(statuses) |->
        [name |-> StageNames[i], status |-> statuses[i], durationMillis |-> 61000 * i]]

StatusLists == UNION {[1..n -> StageStatuses] : n \in 0..MaxStages}

\* the builds Jenkins answers with: no actions, and a result that is null
\* while the build runs
UpstreamBuilds ==
    { [number |-> 7, result |-> result, building |-> result = UNDEF, duration |-> 125000,
       timestamp |-> 0, stages |-> StagesOf(statuses)] :
        result \in {"SUCCESS", "FAILURE", UNDEF}, statuses \in StatusLists }

\* what an instance of JenkinsService has: the methods of its prototype;
\* the helpers declared static belong to the class itself
InstanceMembers ==
    { "setConfig", "testConnection", "makeRequest", "makeRequestWithCrumb", "getJobs",
      "getJobDetails", "getBuildDetails", "getBuildLog", "getViews", "triggerBuild",
      "stopBuild", "getQueue", "getComputerInfo" }

convertBuildStatus(result, building) ==
    IF building THEN "running"
    ELSE IF result = "SUCCESS" THEN "success"
    ELSE IF result = "FAILURE" THEN "failed"
    ELSE "pending"

\* of a build without actions
getFailureReason(build) == IF "actions" \notin DOMAIN build THEN NullString ELSE UNDEF

getBuildParameters(build) == IF "actions" \notin DOMAIN build THEN << >> ELSE << >>

\* build.stages?.find(s => s.status === 'FAILED')?.name || undefined
failureStage(build) ==
    LET failed == {i \in 1..Len(build.stages) : build.stages[i].status = "FAILED"}
    IN  IF failed = {} THEN UNDEF
        ELSE build.stages[CHOOSE i \in failed : \A j \in failed : i <= j].name

\* the object the route builds from the build
TransformedBuild(jobName, build) ==
    [id |-> jobName \o "-" \o ToString(build.number),
     name |-> jobName,
     status |-> convertBuildStatus(IF Truthy(build.result) THEN build.result ELSE "PENDING",
                                   build.building),
     duration |-> build.duration \div 60000,
     startTime |-> [iso |-> build.timestamp],
     failureStage |-> failureStage(build),
     failureReason |-> getFailureReason(build),
     developer |-> "Unknown",
     branch |-> "main",
     stages |-> [i \in 1..Len(build.stages) |->
                    [id |-> jobName \o "-" \o ToString(build.number) \o "-" \o build.stages[i].name,
                     name |-> build.stages[i].name,
                     status |-> convertBuildStatus(build.stages[i].status, FALSE),
                     duration |-> build.stages[i].durationMillis \div 60000,
                     logs |-> << >>]]]

BuildEndpoint(jobName, buildNumber) ==
    "/job/" \o jobName \o "/" \o ToString(buildNumber) \o "/api/json?tree=number"

FetchFailed == [number |-> -1]

\* the response of the route: 400 without a job name; 500 when anything in
\* the try block throws, which the fetch can do and which calling
\* jenkinsService.convertBuildStatus does when the instance has no such
\* member; otherwise the transformed build
BuildResponse(jobName, build) ==
    LET request == [jobName |-> jobName, build |-> build]
    IN  IF ~Truthy(jobName)
        THEN [route |-> "GET /api/jenkins/build", status |-> 400, request |-> request,
              body |-> [error |-> "Missing required parameters"]]
        ELSE IF build = FetchFailed \/ "convertBuildStatus" \notin InstanceMembers
        THEN [route |-> "GET /api/jenkins/build", status |-> 500, request |-> request,
              body |-> [error |-> "Failed to fetch build details"]]
        ELSE [route |-> "GET /api/jenkins/build", status |-> 200, request |-> request,
              body |-> TransformedBuild(jobName, build)]

\* GET /api/jenkins/build?jobName=...&buildNumber=7&url=...
BuildDetails(jobName, build) ==
    /\ response' = BuildResponse(jobName, build)
    /\ IF Truthy(jobName)
       THEN /\ config' = ConfigOf(1)
            /\ upstream' = upstream \cup {Fetched(1, ConfigOf(1), BuildEndpoint(jobName, 7))}
       ELSE UNCHANGED << config, upstream >>
    /\ UNCHANGED inflight

(***************************************************************************)
(* WebSocket server (setupSocket) and the client hook (useWebSocket).      *)
(***************************************************************************)
Clients == 1..MaxClients

PipelineRoom(pipelineId) == "pipeline-" \o pipelineId

RoomNames == {"monitoring", "notifications", PipelineRoom("p1")}

Offline == [connected |-> FALSE, enableMonitoring |-> FALSE, enableNotifications |-> FALSE,
            pipelineIds |-> << >>]

\* the options a component passes to useWebSocket
HookOptions ==
    { [enableMonitoring |-> TRUE, enableNotifications |-> FALSE, pipelineIds |-> << >>],
      [enableMonitoring |-> FALSE, enableNotifications |-> TRUE, pipelineIds |-> << "p1" >>] }

Event(name, pipelineId) == [event |-> name, pipelineId |-> pipelineId]

\* what the client's connect handler emits, in order
JoinEmits(options) ==
    (IF options.enableMonitoring THEN << Event("join-monitoring", UNDEF) >> ELSE << >>)
        \o (IF options.enableNotifications THEN << Event("join-notifications", UNDEF) >> ELSE << >>)
        \o [i \in 1..Len(options.pipelineIds) |-> Event("join-pipeline", options.pipelineIds[i])]

\* the socket connects: the client's connect handler runs
Connect(c, options) ==
    /\ ~clients[c].connected
    /\ clients' = [clients EXCEPT ![c] = Spread(options, [connected |-> TRUE])]
    /\ toServer' = [toServer EXCEPT ![c] = JoinEmits(options)]
    /\ UNCHANGED << rooms, received, broadcasts, emitted >>

\* the socket closes: the server drops it from every room
Disconnect(c) ==
    /\ clients[c].connected
    /\ clients' = [clients EXCEPT ![c].connected = FALSE]
    /\ rooms' = [room \in RoomNames |-> rooms[room] \ {c}]
    /\ toServer' = [toServer EXCEPT ![c] = << >>]
    /\ UNCHANGED << received, broadcasts, emitted >>

\* the events a connected client publishes
PublishedEvents ==
    { Event("pipeline-update", "p1"), Event("bulk-pipeline-updates", UNDEF),
      Event("jenkins-status", UNDEF), Event("failure-analysis", "p1"),
      Event("notification", "p1"), Event("system-alert", UNDEF), Event("log-update", "p1") }

Publish(c, e) ==
    /\ clients[c].connected
    /\ toServer' = [toServer EXCEPT ![c] = Append(@, e)]
    /\ emitted' = emitted + 1
    /\ UNCHANGED << clients, rooms, received, broadcasts >>

\* the rooms a handler of setupSocket emits the event to; io.emit reaches
\* every socket
TargetRooms(e) ==
    CASE e.event = "pipeline-update" -> << PipelineRoom(e.pipelineId), "monitoring" >>
      [] e.event = "notification" ->
            << "notifications" >> \o
                (IF Truthy(e.pipelineId) THEN << PipelineRoom(e.pipelineId) >> ELSE << >>)
      [] e.event = "system-alert" -> << "*" >>
      [] e.event = "jenkins-status" -> << "monitoring" >>
      [] e.event = "log-update" -> << PipelineRoom(e.pipelineId) >>
      [] e.event = "bulk-pipeline-updates" -> << "monitoring" >>
      [] e.event = "failure-analysis" -> << PipelineRoom(e.pipelineId), "monitoring" >>
      [] OTHER -> << >>

Members(room) == IF room = "*" THEN {c \in Clients : clients[c].connected} ELSE rooms[room]

\* the clients that asked for the monitoring room and whose join requests
\* the server has handled
Settled ==
    {c \in Clients :
        /\ clients[c].connected /\ clients[c].enableMonitoring
        /\ \A i \in 1..Len(toServer[c]) : toServer[c][i].event # "join-monitoring"}

\* a server with the handler socket.on('join-monitoring', ...) in place
JoinedRoomsWithMonitoring(c, e) ==
    CASE e.event = "join-pipeline" ->
              [rooms EXCEPT ![PipelineRoom(e.pipelineId)] = @ \cup {c}]
      [] e.event = "leave-pipeline" ->
              [rooms EXCEPT ![PipelineRoom(e.pipelineId)] = @ \ {c}]
      [] e.event = "join-notifications" -> [rooms EXCEPT !["notifications"] = @ \cup {c}]
      [] e.event = "join-monitoring" -> [rooms EXCEPT !["monitoring"] = @ \cup {c}]
      [] OTHER -> rooms

\* the rooms after the server's handler for e, sent by c: an event without
\* a handler changes nothing
JoinedRooms(c, e) ==
    CASE e.event = "join-pipeline" ->
              [rooms EXCEPT ![PipelineRoom(e.pipelineId)] = @ \cup {c}]
      [] e.event = "leave-pipeline" ->
              [rooms EXCEPT ![PipelineRoom(e.pipelineId)] = @ \ {c}]
      [] e.event = "join-notifications" -> [rooms EXCEPT !["notifications"] = @ \cup {c}]
      [] OTHER -> rooms

\* the server handles the oldest event of c
ServerHandles(c) ==
    /\ toServer[c] # << >>
    /\ LET e == toServer[c][1]
           targets == TargetRooms(e)
           Delivery(room) == [event |-> e.event, seq |-> emitted, room |-> room]
       IN  /\ toServer' = [toServer EXCEPT ![c] = Tail(@)]
           /\ rooms' = JoinedRooms(c, e)
           /\ received' = [d \in Clients |->
                  received[d] \cup {Delivery(targets[i]) :
                                       i \in {j \in 1..Len(targets) : d \in Members(targets[j])}}]
           /\ broadcasts' = broadcasts \cup
                  {Spread(Delivery(targets[i]), [from |-> c, settled |-> Settled]) :
                       i \in 1..Len(targets)}
    /\ UNCHANGED << clients, emitted >>

(***************************************************************************)
(* The state after construction.                                            *)
(***************************************************************************)
Init ==
    /\ clock = 0
    /\ notifications = << >>
    /\ subscribers = << >>
    /\ subscribed = {}
    /\ subCount = 0
    /\ delivered = << >>
    /\ lifecycleOps = 0
    /\ ret = [op |-> "init", id |-> NoId, again |-> FALSE, value |-> FALSE]
    /\ analysis = [op |-> "init"]
    /\ solutions = DefaultSolutions
    /\ patterns = DefaultPatterns
    /\ catalogOps = 0
    /\ kbRet = [op |-> "init"]
    /\ response = [route |-> "init"]
    /\ config = NoConfig
    /\ inflight = [r \in Requests |-> Idle]
    /\ upstream = {}
    /\ clients = [c \in Clients |-> Offline]
    /\ rooms = [room \in RoomNames |-> {}]
    /\ toServer = [c \in Clients |-> << >>]
    /\ received = [c \in Clients |-> {}]
    /\ broadcasts = {}
    /\ emitted = 0

(***************************************************************************)
(* Specifications.                                                         *)
(***************************************************************************)
\* creation and the lifecycle calls
Tick == TickUpTo(MaxTicks) /\ UNCHANGED outsideManager

Create ==
    /\ Len(notifications) < MaxNotifications
    /\ \E in \in LifecycleInputs : createNotification(in, 1)
    /\ UNCHANGED outsideManager

Acknowledge ==
    /\ lifecycleOps < MaxLifecycleOps
    /\ \E id \in IdSpace, u \in UserIds : acknowledgeNotification(id, u)
    /\ UNCHANGED outsideManager

Resolve ==
    /\ lifecycleOps < MaxLifecycleOps
    /\ \E id \in IdSpace, u \in UserIds : resolveNotification(id, u)
    /\ UNCHANGED outsideManager

Assign ==
    /\ lifecycleOps < MaxLifecycleOps
    /\ \E id \in IdSpace, a \in Assignees, u \in UserIds : assignNotification(id, a, u)
    /\ UNCHANGED outsideManager

Next == Tick \/ Create \/ Acknowledge \/ Resolve \/ Assign

Spec == Init /\ [][Next]_vars

\* creation and the notification action route
ActionRequest ==
    /\ lifecycleOps < MaxLifecycleOps
    /\ \E body \in ActionBodies : NotificationAction(body)
    /\ UNCHANGED << analyzerVars, catalogVars, jenkinsVars, socketVars >>

CreateForAction ==
    /\ Len(notifications) < MaxNotifications
    /\ \E in \in LifecycleInputs, rnd \in Rands : createNotification(in, rnd)
    /\ UNCHANGED outsideManager

NextActions == CreateForAction \/ ActionRequest

SpecActions == Init /\ [][NextActions]_vars

\* every operation on the store: creation, the lifecycle calls and cleanup
StoreInputs == {in \in CreateInputs : in.severity = "critical"}

TickStore == TickUpTo(MaxStoreTicks) /\ UNCHANGED outsideManager

CreateInStore ==
    /\ Len(notifications) < MaxStoreNotifications
    /\ \E in \in StoreInputs : createNotification(in, 1)
    /\ UNCHANGED outsideManager

AcknowledgeInStore ==
    /\ lifecycleOps < MaxStoreOps
    /\ \E i \in 1..Len(notifications) : acknowledgeNotification(notifications[i].id, "alice")
    /\ UNCHANGED outsideManager

ResolveInStore ==
    /\ lifecycleOps < MaxStoreOps
    /\ \E i \in 1..Len(notifications) : resolveNotification(notifications[i].id, "alice")
    /\ UNCHANGED outsideManager

AssignInStore ==
    /\ lifecycleOps < MaxStoreOps
    /\ \E i \in 1..Len(notifications) : assignNotification(notifications[i].id, "bob", "alice")
    /\ UNCHANGED outsideManager

CleanupStore == cleanup /\ UNCHANGED outsideManager

NextStore ==
    TickStore \/ CreateInStore \/ AcknowledgeInStore \/ ResolveInStore \/ AssignInStore
        \/ CleanupStore

SpecStore == Init /\ [][NextStore]_vars

\* rule conditions and failure patterns whose regular expression may not compile
CreateUnderRules ==
    /\ Len(notifications) < MaxRegexNotifications
    /\ \E rs \in RuleLists, in \in CreateInputs : createNotificationUnder(rs, in, 1)
    /\ UNCHANGED outsideManager

AddPattern ==
    /\ Len(patterns) < Len(DefaultPatterns) + MaxPatternAdds
    /\ \E pattern \in PatternInputs : AddFailurePattern(pattern, 1)
    /\ UNCHANGED outsideCatalog

Recognize ==
    /\ \E text \in RecognizeTexts : RecognizeFailurePattern(text)
    /\ UNCHANGED outsideCatalog

NextRegex == CreateUnderRules \/ AddPattern \/ Recognize

SpecRegex == Init /\ [][NextRegex]_vars

\* creation, resolution and statistics
StatsInputs == {in \in CreateInputs : in.severity \in {"critical", "low", "high"}}

TickStats == TickUpTo(MaxStatsTicks) /\ UNCHANGED outsideManager

CreateForStats ==
    /\ Len(notifications) < MaxStatsNotifications
    /\ \E in \in StatsInputs : createNotification(in, 1)
    /\ UNCHANGED outsideManager

ResolveForStats ==
    /\ lifecycleOps < MaxStatsResolves
    /\ \E i \in 1..Len(notifications) :
          /\ ~notifications[i].resolved
          /\ resolveNotification(notifications[i].id, "alice")
    /\ UNCHANGED outsideManager

Stats == GetNotificationStats /\ UNCHANGED outsideManager

NextStats == TickStats \/ CreateForStats \/ ResolveForStats \/ Stats

SpecStats == Init /\ [][NextStats]_vars

\* creation alone, with every input
CreateAny ==
    /\ Len(notifications) < MaxCreated
    /\ \E in \in CreateInputs, rnd \in Rands : createNotification(in, rnd)
    /\ UNCHANGED outsideManager

NextCreate == Tick \/ CreateAny

SpecCreate == Init /\ [][NextCreate]_vars

\* creation and queries
CreateForQuery ==
    /\ Len(notifications) < MaxQueryNotifications
    /\ \E in \in QueryInputs : createNotification(in, 1)
    /\ UNCHANGED outsideManager

Query ==
    /\ \E f \in FilterInputs : GetNotifications(f)
    /\ UNCHANGED outsideManager

NextQuery == Tick \/ CreateForQuery \/ Query

SpecQuery == Init /\ [][NextQuery]_vars

\* creation, lifecycle calls and queries without pagination
CreateForFilter ==
    /\ Len(notifications) < MaxFilterNotifications
    /\ \E in \in FilterCreateInputs, rnd \in Rands : createNotification(in, rnd)
    /\ UNCHANGED outsideManager

AcknowledgeForFilter ==
    /\ lifecycleOps < MaxLifecycleOps
    /\ \E id \in IdSpace : acknowledgeNotification(id, "alice")
    /\ UNCHANGED outsideManager

ResolveForFilter ==
    /\ lifecycleOps < MaxLifecycleOps
    /\ \E id \in IdSpace : resolveNotification(id, "alice")
    /\ UNCHANGED outsideManager

AssignForFilter ==
    /\ lifecycleOps < MaxLifecycleOps
    /\ \E id \in IdSpace, a \in Assignees : assignNotification(id, a, "alice")
    /\ UNCHANGED outsideManager

QueryUnpaged ==
    /\ \E f \in UnpagedFilterInputs : GetNotifications(f)
    /\ UNCHANGED outsideManager

NextFilter ==
    CreateForFilter \/ AcknowledgeForFilter \/ ResolveForFilter \/ AssignForFilter \/ QueryUnpaged

SpecFilter == Init /\ [][NextFilter]_vars

\* creation and cleanup over a retention window
TickCleanup == TickUpTo(MaxCleanupTicks) /\ UNCHANGED outsideManager

CreateForCleanup ==
    /\ Len(notifications) < MaxCleanupNotifications
    /\ \E in \in CreateInputs : createNotification(in, 1)
    /\ UNCHANGED outsideManager

Cleanup == cleanup /\ UNCHANGED outsideManager

NextCleanup == TickCleanup \/ CreateForCleanup \/ Cleanup

SpecCleanup == Init /\ [][NextCleanup]_vars

\* the subscriber registry with notification creation
Subscribe ==
    /\ subCount < MaxSubscribers
    /\ \E throws \in BOOLEAN, rnd \in Rands : subscribe(throws, rnd)
    /\ UNCHANGED outsideManager

Unsubscribe ==
    /\ \E id \in IdSpace : unsubscribe(id)
    /\ UNCHANGED outsideManager

CreateSubscribed ==
    /\ Len(notifications) < MaxSubNotifications
    /\ \E in \in SubscriberInputs : createNotification(in, 1)
    /\ UNCHANGED outsideManager

NextSubscribers == Tick \/ Subscribe \/ Unsubscribe \/ CreateSubscribed

SpecSubscribers == Init /\ [][NextSubscribers]_vars

\* the knowledge base: changes to the catalog with export and import
TickCatalog ==
    /\ TickUpTo(MaxTicks)
    /\ UNCHANGED << analyzerVars, catalogVars, response, jenkinsVars, socketVars >>

CatalogAdd ==
    /\ catalogOps < MaxCatalogOps
    /\ \E body \in AddBodies, rnd \in Rands : KbPost(body, rnd)
    /\ UNCHANGED outsideCatalog

CatalogGet ==
    /\ \E params \in GetParams : KbGet(params)
    /\ UNCHANGED outsideCatalog

CatalogPost ==
    /\ catalogOps < MaxCatalogOps
    /\ \E body \in PostBodies : KbPost(body, 1)
    /\ UNCHANGED outsideCatalog

CatalogPut ==
    /\ catalogOps < MaxCatalogOps
    /\ \E body \in PutBodies : KbPut(body)
    /\ UNCHANGED outsideCatalog

CatalogDelete ==
    /\ catalogOps < MaxCatalogOps
    /\ \E id \in DeleteIds : KbDelete(id)
    /\ UNCHANGED outsideCatalog

Export == ExportSolutions /\ UNCHANGED outsideCatalog

Import ==
    /\ \E jsonData \in ForeignDocuments \cup {exportSolutions(solutions, patterns, clock)} :
           importSolutions(jsonData)
    /\ UNCHANGED outsideCatalog

NextCatalog == TickCatalog \/ CatalogAdd \/ CatalogPut \/ CatalogDelete \/ Export \/ Import

SpecCatalog == Init /\ [][NextCatalog]_vars

\* the knowledge base: adds, updates and deletes of solutions
TickUpdates ==
    /\ TickUpTo(MaxUpdateTicks)
    /\ UNCHANGED << analyzerVars, catalogVars, response, jenkinsVars, socketVars >>

AddInCatalog ==
    /\ catalogOps < MaxUpdateOps
    /\ \E body \in AddBodies : KbPost(body, 1)
    /\ UNCHANGED outsideCatalog

UpdateInCatalog ==
    /\ catalogOps < MaxUpdateOps
    /\ \E body \in PutBodies : KbPut(body)
    /\ UNCHANGED outsideCatalog

DeleteInCatalog ==
    /\ catalogOps < MaxUpdateOps
    /\ \E id \in DeleteIds : KbDelete(id)
    /\ UNCHANGED outsideCatalog

NextUpdates == TickUpdates \/ AddInCatalog \/ UpdateInCatalog \/ DeleteInCatalog

SpecUpdates == Init /\ [][NextUpdates]_vars

\* the knowledge base behind its routes
NextCatalogRoutes == CatalogGet \/ CatalogPost \/ CatalogPut \/ CatalogDelete

SpecCatalogRoutes == Init /\ [][NextCatalogRoutes]_vars

\* the Jenkins routes over the shared service
JenkinsJobs ==
    /\ \E r \in Requests : JobsRequest(r, ConfigOf(r))
    /\ UNCHANGED outsideJenkins

JenkinsFetchResponds ==
    /\ \E r \in Requests, outcome \in FetchOutcomes : FetchResponds(r, outcome)
    /\ UNCHANGED outsideJenkins

JenkinsCrumbResponds ==
    /\ \E r \in Requests, ok \in BOOLEAN : CrumbResponds(r, ok)
    /\ UNCHANGED outsideJenkins

JenkinsRetryResponds ==
    /\ \E r \in Requests : RetryResponds(r)
    /\ UNCHANGED outsideJenkins

NextJenkins == JenkinsJobs \/ JenkinsFetchResponds \/ JenkinsCrumbResponds \/ JenkinsRetryResponds

SpecJenkins == Init /\ [][NextJenkins]_vars

\* the build details route
JenkinsBuildDetails ==
    /\ \E jobName \in {"deploy", ""}, build \in UpstreamBuilds \cup {FetchFailed} :
           BuildDetails(jobName, build)
    /\ UNCHANGED << managerVars, analyzerVars, catalogVars, socketVars >>

NextBuild == JenkinsBuildDetails

SpecBuild == Init /\ [][NextBuild]_vars

\* the WebSocket server and its clients
SocketConnect ==
    /\ \E c \in Clients, options \in HookOptions : Connect(c, options)
    /\ UNCHANGED outsideSocket

SocketDisconnect ==
    /\ \E c \in Clients : Disconnect(c)
    /\ UNCHANGED outsideSocket

SocketPublish ==
    /\ emitted < MaxPublished
    /\ \E c \in Clients, e \in PublishedEvents : Publish(c, e)
    /\ UNCHANGED outsideSocket

SocketServerHandles ==
    /\ \E c \in Clients : ServerHandles(c)
    /\ UNCHANGED outsideSocket

NextSocket == SocketConnect \/ SocketDisconnect \/ SocketPublish \/ SocketServerHandles

SpecSocket == Init /\ [][NextSocket]_vars

\* the failure analyzer
Analyze ==
    /\ \E pid \in PipelineIds, reason \in FailureReasons, logs \in LogInputs, hist \in HistoryInputs :
           AnalyzeFailure(pid, reason, logs, hist)
    /\ UNCHANGED outsideAnalyzer

Categorize ==
    /\ \E reason \in FailureReasons, logs \in LogInputs : CategorizeFailure(reason, logs)
    /\ UNCHANGED outsideAnalyzer

NextAnalyzer == Analyze \/ Categorize

SpecAnalyzer == Init /\ [][NextAnalyzer]_vars

(***************************************************************************)
(* Claims.                                                                 *)
(***************************************************************************)
LifecycleCalls == {"acknowledge", "resolve", "assign"}

IsStored(store, id) == \E k \in 1..Len(store) : store[k].id = id

\* C1: getNotifications returns its results ordered by severity descending
\* and, among equal severities, by creation timestamp descending.
C1_SortedBySeverityThenNewest ==
    ret.op = "getNotifications" =>
        \A i, j \in 1..Len(ret.value) :
            i < j =>
                \/ severityOrder(ret.value[i].severity) > severityOrder(ret.value[j].severity)
                \/ /\ ret.value[i].severity = ret.value[j].severity
                   /\ ret.value[i].timestamp >= ret.value[j].timestamp

\* a result of three whose order differs from the store's in both keys
C1_Witness ==
    /\ ret.op = "getNotifications"
    /\ Len(ret.value) = 3
    /\ ret.value[1].severity # ret.value[2].severity
    /\ ret.value[1].timestamp < ret.value[2].timestamp
    /\ ret.value[2].severity = ret.value[3].severity
    /\ ret.value[2].timestamp > ret.value[3].timestamp
    /\ ret.value # ret.store

\* C2: the actions appended to a notification's baseline actions are exactly
\* those of the matching enabled rule with the smallest priority number, and
\* nothing is appended when no enabled rule matches.
MatchingRules(n) ==
    {i \in 1..Len(rules) : rules[i].enabled /\ matchesConditions(n, rules[i].conditions)}

BestRule(n) ==
    CHOOSE i \in MatchingRules(n) :
        \A j \in MatchingRules(n) : rules[i].priority <= rules[j].priority

C2_OnlyFirstMatchingRule ==
    \A k \in 1..Len(notifications) :
        LET n == notifications[k]
            base == generateActions(n.type, n.severity)
        IN  n.actions = base \o (IF MatchingRules(n) = {} THEN << >>
                                 ELSE rules[BestRule(n)].actions)

C2_Witness ==
    \E k \in 1..Len(notifications) :
        /\ Cardinality(MatchingRules(notifications[k])) >= 2
        /\ Len(notifications[k].actions) >
               Len(generateActions(notifications[k].type, notifications[k].severity))

\* C3: cleanup() removes exactly the notifications whose timestamp is older
\* than 30 days and retains all others, one timestamped exactly 30 days
\* before the cleanup instant included.
NotOlderThanThirtyDays(n) == ret.now - n.timestamp <= ThirtyDays

C3_CleanupRemovesOnlyOlder ==
    ret.op = "cleanup" => ret.value = SelectSeq(ret.before, NotOlderThanThirtyDays)

\* C4: analyzeFailure returns a confidence in the closed interval [0,1].
C4_ConfidenceInUnitInterval ==
    analysis.op = "analyzeFailure" =>
        /\ analysis.value.confidence # NaN
        /\ analysis.value.confidence >= 0
        /\ analysis.value.confidence <= One

\* C5: acknowledge, resolve and assign return false for an id that is not in
\* the store and leave the store unchanged; they return true for a stored id.
C5_UnknownIdNoEffect ==
    [][ (lifecycleOps' # lifecycleOps /\ ret'.op \in LifecycleCalls) =>
            IF IsStored(notifications, ret'.id)
            THEN ret'.value = TRUE
            ELSE ret'.value = FALSE /\ notifications' = notifications ]_vars

C5_Witness ==
    /\ ret.op \in LifecycleCalls
    /\ ret.value = FALSE
    /\ Len(notifications) > 0
    /\ \E k \in 1..Len(notifications) : notifications[k].id.time = ret.id.time

\* C6: a second acknowledge(id) on a stored notification returns true again
\* and leaves acknowledged = true and resolved, assignee, tags and actions as
\* they were after the first call.
C6_AcknowledgeIdempotent ==
    [][ (/\ ret.op = "acknowledge" /\ ret.value = TRUE
         /\ lifecycleOps' # lifecycleOps
         /\ ret'.op = "acknowledge" /\ ret'.id = ret.id) =>
            /\ ret'.value = TRUE
            /\ Len(notifications') = Len(notifications)
            /\ \A k \in 1..Len(notifications) :
                   /\ notifications'[k].acknowledged = notifications[k].acknowledged
                   /\ notifications'[k].resolved = notifications[k].resolved
                   /\ notifications'[k].assignee = notifications[k].assignee
                   /\ notifications'[k].tags = notifications[k].tags
                   /\ notifications'[k].actions = notifications[k].actions
            /\ \E k \in 1..Len(notifications') :
                   notifications'[k].id = ret.id /\ notifications'[k].acknowledged ]_vars

C6_Witness == ret.op = "acknowledge" /\ ret.again /\ ret.value = TRUE

\* C7: with offset and limit supplied, getNotifications returns the elements
\* at positions offset .. offset+limit-1 of the filtered, sorted list.
Unpaged(f) == [f EXCEPT !.offset = None, !.limit = None]

C7_PageIsOffsetThenLimit ==
    (ret.op = "getNotifications" /\ IsSome(ret.filters.offset) /\ IsSome(ret.filters.limit)) =>
        LET full == getNotifications(ret.store, Unpaged(ret.filters))
            o == The(ret.filters.offset)
            l == The(ret.filters.limit)
        IN  /\ ret.value = SubSeq(full, o + 1, Min(o + l, Len(full)))
            /\ Len(ret.value) <= l

\* C8: all notifications in the store have pairwise distinct ids.
C8_DistinctIds ==
    \A i, j \in 1..Len(notifications) :
        i # j => notifications[i].id # notifications[j].id

\* C9: a throwing subscriber does not make createNotification throw, the
\* notification is stored and returned, and every subscriber in the registry
\* is invoked with it.
C9_ThrowingSubscriberIsolated ==
    ret.op = "createNotification" =>
        /\ ret.threw = FALSE
        /\ \E k \in 1..Len(notifications) : notifications[k] = ret.value
        /\ \A i \in 1..Len(ret.subs) :
               \E j \in 1..Len(delivered) :
                   delivered[j].cb = ret.subs[i].callback.name /\ delivered[j].seen = ret.value

C9_Witness ==
    /\ ret.op = "createNotification"
    /\ \E i, j \in 1..Len(ret.subs) :
           i < j /\ ret.subs[i].callback.throws /\ ~ret.subs[j].callback.throws

\* C10: every subscriber invocation of a createNotification sees the record
\* stored and rule-stamped, each callback subscribed and not unsubscribed is
\* invoked exactly once, and no other callback is invoked.
C10_EachLiveSubscriberOnce ==
    ret.op = "createNotification" =>
        /\ \A j \in 1..Len(delivered) :
               /\ delivered[j].inStore
               /\ delivered[j].seen = ret.value
               /\ delivered[j].cb \in {s.cb : s \in ret.live}
        /\ \A s \in ret.live :
               Cardinality({j \in 1..Len(delivered) : delivered[j].cb = s.cb}) = 1

\* the lower-cased text a FailureAnalyzer call has classified
AnalyzedText ==
    IF analysis.op = "categorizeFailure"
    THEN FailureText(analysis.failureReason, analysis.logs)
    ELSE FailureText(analysis.value.failureReason, analysis.value.logs)

\* the indices of the patterns of category c that occur in the text
PatternsFound(text, c) == {j \in 1..Len(c.patterns) : includes(text, toLowerCase(c.patterns[j]))}

\* C11: categorizeFailure returns the first category, in table order, one of
\* whose patterns occurs case-insensitively in the failure reason joined with
\* the log lines.
C11_FirstMatchingCategory ==
    analysis.op = "categorizeFailure" =>
        \A i \in 1..Len(categories) :
            ( /\ PatternsFound(AnalyzedText, categories[i]) # {}
              /\ \A h \in 1..(i - 1) : PatternsFound(AnalyzedText, categories[h]) = {} )
            => analysis.value = categories[i]

C11_Witness ==
    /\ analysis.op = "categorizeFailure"
    /\ analysis.failureReason # toLowerCase(analysis.failureReason)
    /\ \E i, j \in 1..Len(categories) :
           /\ 1 < i /\ i < j
           /\ analysis.value = categories[i]
           /\ PatternsFound(AnalyzedText, categories[j]) # {}

\* C12: when no pattern of any category occurs in the text, categorizeFailure
\* returns null and analyzeFailure returns the category "unknown" with
\* severity medium and no automatic fix; analyzeFailure never returns a null
\* category.
NoPatternFound == \A i \in 1..Len(categories) : PatternsFound(AnalyzedText, categories[i]) = {}

C12_UnknownWhenNothingMatches ==
    /\ (analysis.op = "categorizeFailure" /\ NoPatternFound) => analysis.value = Null
    /\ analysis.op = "analyzeFailure" =>
           /\ analysis.value.category.id # Null.id
           /\ NoPatternFound =>
                  /\ analysis.value.category.id = "unknown"
                  /\ analysis.value.category.severity = "medium"
                  /\ analysis.value.category.autoFixAvailable = FALSE

C12_Witness ==
    /\ analysis.op = "analyzeFailure"
    /\ NoPatternFound
    /\ analysis.value.failureReason # ""
    /\ analysis.value.logs # << >>

\* C13: for a matched category the confidence is
\* min(matched patterns / patterns of the category, 1) + 0.2, clamped to 1,
\* counting every pattern of the category that occurs in the text; with one
\* matching pattern it is 1/patternCount + 0.2.
C13_ConfidenceOfMatchedCategory ==
    (analysis.op = "analyzeFailure" /\ analysis.value.category.id # "unknown") =>
        LET c == analysis.value.category
            matched == Cardinality(PatternsFound(AnalyzedText, c))
            total == Len(c.patterns)
        IN  /\ analysis.value.confidence =
                   Min(Min((matched * Scale) \div total, One) + SpecificityBonus, One)
            /\ matched = 1 => analysis.value.confidence = (Scale \div total) + SpecificityBonus

C13_Witness ==
    /\ analysis.op = "analyzeFailure"
    /\ analysis.value.category.id # "unknown"
    /\ Cardinality(PatternsFound(AnalyzedText, analysis.value.category)) \in
           2..(Len(analysis.value.category.patterns) - 1)

\* C14: importSolutions(exportSolutions()) returns true and leaves the
\* solutions list and the patterns list as they were before the export.
IsRoundTrip ==
    /\ kbRet.op = "importSolutions"
    /\ kbRet.json.valid
    /\ DOMAIN kbRet.json.data = {"solutions", "patterns", "exportedAt"}
    /\ kbRet.json.data.solutions = stringifyList(kbRet.before.solutions)
    /\ kbRet.json.data.patterns = stringifyList(kbRet.before.patterns)

C14_ExportImportRoundTrip ==
    IsRoundTrip => (kbRet.value = TRUE /\ kbRet.after = kbRet.before)

\* C17: a knowledge-base GET or POST whose action is none of the supported
\* ones is answered with status 400 and leaves the catalog as it was.
SupportedActions(route) ==
    IF route = "kb.GET" THEN {"stats", "search", "category", "severity"}
    ELSE {"find-solutions", "add-solution", "get-autofix", "recognize-pattern"}

IsUnknownAction ==
    /\ response.route \in {"kb.GET", "kb.POST"}
    /\ response.action # UNDEF
    /\ response.action \notin SupportedActions(response.route)

C17_UnknownActionIsClientError ==
    IsUnknownAction => (response.status = 400 /\ response.after = response.before)

\* C15: without pagination getNotifications returns exactly the stored
\* notifications that satisfy every supplied filter, each exactly once, and
\* leaves the store and its order as they were.
Satisfies(n, f) ==
    /\ f.type # UNDEF => n.type = f.type
    /\ f.severity # UNDEF => n.severity = f.severity
    /\ f.pipelineId # UNDEF => n.pipelineId = f.pipelineId
    /\ f.acknowledged # None => n.acknowledged = The(f.acknowledged)
    /\ f.resolved # None => n.resolved = The(f.resolved)
    /\ f.assignee # UNDEF => n.assignee = f.assignee
    /\ f.tags # None => {The(f.tags)[i] : i \in 1..Len(The(f.tags))} \subseteq
                             {n.tags[i] : i \in 1..Len(n.tags)}

Occurrences(seq, n) == Cardinality({k \in 1..Len(seq) : seq[k] = n})

C15_ExactlyTheMatchingNotifications ==
    [][ (ret'.op = "getNotifications" /\ ret' # ret /\ Unpaged(ret'.filters) = ret'.filters) =>
            /\ notifications' = notifications
            /\ \A k \in 1..Len(ret'.value) : IsStored(notifications, ret'.value[k].id)
            /\ \A k \in 1..Len(notifications) :
                   Occurrences(ret'.value, notifications[k]) =
                       IF Satisfies(notifications[k], ret'.filters)
                       THEN Occurrences(notifications, notifications[k]) ELSE 0 ]_vars

C15_Witness ==
    /\ ret.op = "getNotifications"
    /\ ret.filters.acknowledged = Some(FALSE)
    /\ Len(ret.store) = 2
    /\ Len(ret.value) = 1
    /\ ret.store[1].acknowledged /\ ret.store[1].resolved /\ ret.store[1].assignee # UNDEF

\* C16: an assign request without assignee is answered with status 400 and
\* leaves the store (assignee, assignedBy, assignedAt included) as it was; a
\* request naming an id that is not in the store changes nothing and is
\* never answered with success: 404 when the request is otherwise complete.
IsCompleteRequest(body) ==
    /\ body.action \in LifecycleCalls
    /\ body.action = "assign" => body.assignee \notin {UNDEF, ""}

C18_UpstreamUsesOwnConfig ==
    \A call \in upstream :
        /\ call.authorization = BasicAuth(ConfigOf(call.request))
        /\ startsWith(call.url, stripTrailingSlashes(ConfigOf(call.request).url))

\* C19: the escalation rate of getNotificationStats is the percentage, rounded
\* to the nearest integer, of the stored notifications that have an action
\* "escalate" in their action list, whatever was acknowledged or resolved,
\* and 0 for an empty store.
EscalatedCount(store) ==
    Cardinality({i \in 1..Len(store) :
                    \E j \in 1..Len(store[i].actions) : store[i].actions[j].action = "escalate"})

C19_EscalationRate ==
    ret.op = "getNotificationStats" =>
        LET total == Len(ret.store)
            rate == ret.value.escalationRate
        IN  IF total = 0 THEN rate = 0
            ELSE /\ 2 * rate * total <= 200 * EscalatedCount(ret.store) + total
                 /\ 200 * EscalatedCount(ret.store) + total < 2 * (rate + 1) * total

C19_Witness ==
    /\ ret.op = "getNotificationStats"
    /\ Len(ret.store) = 3
    /\ EscalatedCount(ret.store) = 2
    /\ ret.value.escalationRate = 67
    /\ \E i \in 1..Len(ret.store) : ret.store[i].resolved

\* C20: the notification createNotification returns is not resolved, and it
\* is acknowledged exactly when the first enabled rule that matches it has a
\* priority above 3; with the default rules, exactly when the message
\* contains "slow" while the severity is not critical, the message does not
\* contain "timeout" and the stage does not contain "test" (the rule
\* operator "contains" compares lower-cased text).
FirstMatchingRule(n) ==
    LET matching == {i \in 1..Len(rules) :
                        rules[i].enabled /\ matchesConditions(n, rules[i].conditions)}
    IN  {i \in matching : \A j \in matching : i <= j}

MentionsLowerCased(text, word) == includes(toLowerCase(text), word)

C20_AutoAcknowledge ==
    ret.op = "createNotification" =>
        LET n == ret.value
            stage == IF Truthy(n.stage) THEN n.stage ELSE ""
        IN  /\ ~n.resolved
            /\ n.acknowledged <=> \E i \in FirstMatchingRule(n) : rules[i].priority > 3
            /\ n.acknowledged <=>
                   /\ MentionsLowerCased(n.message, "slow")
                   /\ n.severity # "critical"
                   /\ ~MentionsLowerCased(n.message, "timeout")
                   /\ ~MentionsLowerCased(stage, "test")

C20_Witness ==
    /\ ret.op = "createNotification"
    /\ ret.value.acknowledged
    /\ ~ret.value.resolved
    /\ \E i \in 1..Len(notifications) :
          /\ ~notifications[i].acknowledged
          /\ MentionsLowerCased(notifications[i].message, "slow")

\* C21: acknowledge leaves resolved and assignee as they were, resolve leaves
\* acknowledged and assignee as they were, assign leaves both flags as they
\* were; a lifecycle call changes no notification other than the one it
\* finds, and only cleanup removes a notification from the store.
IsLifecycleStep == lifecycleOps' # lifecycleOps /\ ret'.op \in LifecycleCalls

IsCleanupStep == ret'.op = "cleanup" /\ ret' # ret

C21_LifecycleChangesOwnFieldOnly ==
    [][ /\ IsLifecycleStep =>
            /\ Len(notifications') = Len(notifications)
            /\ \A k \in 1..Len(notifications) :
                   /\ ret'.op # "acknowledge" =>
                          notifications'[k].acknowledged = notifications[k].acknowledged
                   /\ ret'.op # "resolve" =>
                          notifications'[k].resolved = notifications[k].resolved
                   /\ ret'.op # "assign" =>
                          notifications'[k].assignee = notifications[k].assignee
                   /\ k # find(notifications, ret'.id) =>
                          notifications'[k] = notifications[k]
        /\ ~IsCleanupStep =>
            /\ Len(notifications') >= Len(notifications)
            /\ \A k \in 1..Len(notifications) : notifications'[k].id = notifications[k].id
      ]_vars

\* a notification resolved while unacknowledged, next to an untouched one
C21_Witness ==
    /\ ret.op = "resolve" /\ ret.value = TRUE
    /\ Len(notifications) = 2
    /\ \E k \in 1..Len(notifications) :
          /\ notifications[k].resolved /\ ~notifications[k].acknowledged
          /\ notifications[k].assignee = "bob"
    /\ \E k \in 1..Len(notifications) :
          ~notifications[k].resolved /\ notifications[k].assignee = UNDEF

\* C22: in the actions of the notification createNotification returns, the
\* list up to "resolve" is the baseline: it holds "acknowledge" always,
\* "view_logs", "restart" and "quick_fix" exactly for type pipeline_failure,
\* "escalate" exactly for severity high or critical, and ends with "resolve";
\* whatever follows "resolve" was appended by the rule engine.
BaselineNames == {"acknowledge", "view_logs", "restart", "escalate", "quick_fix", "resolve"}

IdsOf(actions) == {actions[k].id : k \in 1..Len(actions)}

C22_BaselineActions ==
    ret.op = "createNotification" =>
        LET n == ret.value
        IN  /\ "resolve" \in IdsOf(n.actions)
            /\ LET last == CHOOSE k \in 1..Len(n.actions) : n.actions[k].id = "resolve"
                   baseline == IdsOf(SubSeq(n.actions, 1, last))
                   appended == IdsOf(SubSeq(n.actions, last + 1, Len(n.actions)))
               IN  /\ baseline \subseteq BaselineNames
                   /\ Cardinality(baseline) = last
                   /\ "acknowledge" \in baseline
                   /\ \A a \in {"view_logs", "restart", "quick_fix"} :
                          a \in baseline <=> n.type = "pipeline_failure"
                   /\ "escalate" \in baseline <=> n.severity \in {"high", "critical"}
                   /\ appended \cap BaselineNames = {}

\* a high-severity warning: escalate without the pipeline actions
C22_Witness ==
    /\ ret.op = "createNotification"
    /\ ret.value.severity = "high" /\ ret.value.type # "pipeline_failure"
    /\ IdsOf(ret.value.actions) = {"acknowledge", "escalate", "resolve"}
    /\ \E k \in 1..Len(notifications) :
          /\ notifications[k].type = "pipeline_failure"
          /\ Len(notifications[k].actions) > 6

\* C23: in every state the tags of every stored notification are the ones
\* its type, severity, pipeline name and stage determine: the type, the
\* severity, the pipeline name and the stage in lower case with whitespace
\* as "_" when supplied, "urgent" for severity high or critical and
\* "needs_attention" for type pipeline_failure; the rule engine,
\* acknowledge, resolve and assign leave them as they are.
TagOfName ==
    ("My  App" :> "my_app") @@ ("api" :> "api") @@ ("Unit Test" :> "unit_test")
        @@ ("Deploy" :> "deploy") @@ ("Integration Test" :> "integration_test")

ExpectedTags(n) ==
    {n.type, n.severity}
        \cup (IF Truthy(n.pipelineName) THEN {TagOfName[n.pipelineName]} ELSE {})
        \cup (IF Truthy(n.stage) THEN {TagOfName[n.stage]} ELSE {})
        \cup (IF n.severity \in {"high", "critical"} THEN {"urgent"} ELSE {})
        \cup (IF n.type = "pipeline_failure" THEN {"needs_attention"} ELSE {})

C23_TagsFixedAtCreation ==
    \A k \in 1..Len(notifications) :
        {notifications[k].tags[t] : t \in 1..Len(notifications[k].tags)}
            = ExpectedTags(notifications[k])

\* a notification that matched a rule and was acknowledged and resolved
C23_Witness ==
    \E k \in 1..Len(notifications) :
        /\ notifications[k].acknowledged /\ notifications[k].resolved
        /\ Len(notifications[k].actions) > 6
        /\ \E t \in 1..Len(notifications[k].tags) : notifications[k].tags[t] = "my_app"
        /\ \E t \in 1..Len(notifications[k].tags) : notifications[k].tags[t] = "unit_test"

\* C24: an update of a stored solution sets its version to the previous
\* version plus one and its lastUpdated to the time of the call, whatever
\* version and lastUpdated the updates carry, and changes no other solution;
\* an update or a delete of an unknown id is answered "not found" and
\* changes nothing.
HasSolution(catalog, id) == \E i \in 1..Len(catalog) : catalog[i].id = id

C24_UpdateBumpsVersion ==
    [][ (response' # response /\ response'.route \in {"kb.PUT", "kb.DELETE"}
            /\ catalogOps' # catalogOps) =>
            LET id == response'.request.id
                known == HasSolution(solutions, id)
            IN  /\ ~known => response'.status = 404 /\ solutions' = solutions
                /\ (known /\ response'.route = "kb.PUT") =>
                       LET i == CHOOSE i \in 1..Len(solutions) :
                                   solutions[i].id = id /\ \A j \in 1..(i - 1) : solutions[j].id # id
                       IN  /\ response'.status = 200
                           /\ Len(solutions') = Len(solutions)
                           /\ solutions'[i].version = solutions[i].version + 1
                           /\ solutions'[i].lastUpdated = clock
                           /\ solutions'[i].id = id
                           /\ response'.body = solutions'[i]
                           /\ \A j \in 1..Len(solutions) : j # i => solutions'[j] = solutions[j]
      ]_vars

\* an update that carried version 7, on a solution that is then at version 3,
\* after the clock has advanced
C24_Witness ==
    /\ response.route = "kb.PUT" /\ response.status = 200
    /\ "version" \in DOMAIN response.request /\ response.request.version = 7
    /\ response.body.version = 3
    /\ response.body.lastUpdated = clock /\ clock > 0

\* C25: a failure pattern whose regex does not compile is skipped: the
\* recognition returns the first pattern, in list order, that compiles and
\* matches, or null, and throws nothing; a rule whose regex condition does
\* not compile is skipped: the notification is created and stored, and the
\* rules after it apply as if the failing rule were not there.
Compiles(regex) == regex \notin {"(", "[", "*", "a(", "a["}

MatchingPatterns(list, text) ==
    {i \in 1..Len(list) :
        /\ Compiles(list[i].regex)
        /\ \E alternative \in RegexAlternatives(list[i].regex) :
               includes(toLowerCase(text), toLowerCase(alternative))}

C25_RegexFailureIsNoMatch ==
    /\ kbRet.op = "recognizeFailurePattern" =>
           /\ kbRet.value # Thrown
           /\ IF MatchingPatterns(kbRet.list, kbRet.text) = {}
              THEN kbRet.value = Null
              ELSE \E i \in MatchingPatterns(kbRet.list, kbRet.text) :
                      /\ kbRet.value = kbRet.list[i]
                      /\ \A j \in MatchingPatterns(kbRet.list, kbRet.text) : i <= j
    /\ (ret.op = "createNotification" /\ BadRegexRule \in {ret.rules[i] : i \in 1..Len(ret.rules)}) =>
           /\ ~ret.threw
           /\ Len(notifications) > 0 /\ notifications[Len(notifications)] = ret.value
           /\ "broken_action" \notin {ret.value.actions[k].id : k \in 1..Len(ret.value.actions)}
           /\ \E n \in {ret.value} :
                  LET matching == {i \in 1..Len(rules) : matchesConditions(n, rules[i].conditions)}
                  IN  \A i \in matching :
                         (\A j \in matching : i <= j) =>
                             \A a \in 1..Len(rules[i].actions) :
                                 rules[i].actions[a].id \in
                                     {n.actions[k].id : k \in 1..Len(n.actions)}

\* a pattern found behind one that does not compile, and a notification on
\* which a rule was applied behind one that does not compile
C25_Witness ==
    /\ kbRet.op = "recognizeFailurePattern"
    /\ kbRet.value # Null /\ kbRet.value.regex = "(disk|quota)"
    /\ \E i \in 1..(Len(kbRet.list) - 1) :
          kbRet.list[i].regex = "a(" /\ kbRet.list[i + 1] = kbRet.value
    /\ ret.op = "createNotification" /\ ret.rules[1] = BadRegexRule
    /\ Len(ret.value.actions) > 2
    /\ "monitor" \in {ret.value.actions[k].id : k \in 1..Len(ret.value.actions)}

\* C26: no step resets a lifecycle flag: a stored notification that is
\* acknowledged stays acknowledged, and one that is resolved stays resolved.
C26_FlagsMonotonic ==
    [][ \A k \in 1..Len(notifications) :
            /\ k <= Len(notifications')
            /\ notifications'[k].id = notifications[k].id
            /\ notifications[k].acknowledged => notifications'[k].acknowledged
            /\ notifications[k].resolved => notifications'[k].resolved ]_vars

\* a notification acknowledged by a caller and then resolved, next to one
\* that the rule engine acknowledged
C26_Witness ==
    /\ ret.op = "resolve" /\ ret.value = TRUE
    /\ \E k \in 1..Len(notifications) :
          /\ notifications[k].acknowledged /\ notifications[k].resolved
          /\ notifications[k].metadata.acknowledgedBy = "alice"
    /\ \E k \in 1..Len(notifications) :
          notifications[k].acknowledged /\ notifications[k].metadata.acknowledgedAt = NoTime

\* C27: every stored notification that is acknowledged has an acknowledgedAt
\* timestamp in its metadata.
C27_AcknowledgedHasAuditRecord ==
    \A k \in 1..Len(notifications) :
        notifications[k].acknowledged => notifications[k].metadata.acknowledgedAt # NoTime

\* C28: a read request on the knowledge base leaves the solutions list and
\* the patterns list as they were, order included, so recognizeFailurePattern
\* gives the same answer for the same text before and after it.
ReadActions == {"find-solutions", "get-autofix", "recognize-pattern"}

IsReadRequest ==
    \/ response.route = "kb.GET"
    \/ response.route = "kb.POST" /\ response.action \in ReadActions

RecognitionProbes == {"dependency out of memory", "Unable to resolve host: DNS", "all green"}

C28_ReadsLeaveCatalogUnchanged ==
    IsReadRequest =>
        /\ response.after.solutions = response.before.solutions
        /\ response.after.patterns = response.before.patterns
        /\ \A text \in RecognitionProbes :
               recognizeFailurePattern(response.after.patterns, text)
                   = recognizeFailurePattern(response.before.patterns, text)

\* C29: an event the server emits to the room "monitoring" reaches every
\* client that connected with enableMonitoring, whose join requests the
\* server had handled by then and that was connected at that moment.
C29_MonitoringClientReceivesBroadcasts ==
    \A b \in broadcasts :
        b.room = "monitoring" =>
            \A c \in b.settled : [event |-> b.event, seq |-> b.seq, room |-> b.room] \in received[c]

\* C30: the build-details route answers a fetched build with its stages,
\* each reported "failed" when its upstream status is FAILED, "success"
\* when SUCCESS and "running" when RUNNING, so the stage named by
\* failureStage is reported as failed.
IsBuildDetailsOf(r) ==
    /\ "route" \in DOMAIN r /\ r.route = "GET /api/jenkins/build"
    /\ Truthy(r.request.jobName) /\ r.request.build # FetchFailed

ReportedAs(status) ==
    CASE status = "FAILED" -> "failed"
      [] status = "SUCCESS" -> "success"
      [] status = "RUNNING" -> "running"
      [] OTHER -> "pending"

C30_FailedStageReportedFailed ==
    IsBuildDetailsOf(response) =>
        /\ response.status = 200
        /\ Len(response.body.stages) = Len(response.request.build.stages)
        /\ \A i \in 1..Len(response.body.stages) :
              /\ response.request.build.stages[i].status # "PENDING" =>
                     response.body.stages[i].status =
                         ReportedAs(response.request.build.stages[i].status)
              /\ response.body.failureStage = response.body.stages[i].name =>
                     response.body.stages[i].status = "failed"

====
